---------------------------- MODULE Spec2Model ----------------------------
(***************************************************************************)
(* ShotNPin (src/shot-pin/shotnpin.py): the capture editor, the pinned     *)
(* overlays, the shared action bar and the application controller as one   *)
(* event-driven state machine.                                             *)
(*                                                                         *)
(* Conventions.                                                            *)
(*  - A QPoint is <<x, y>>; a QRect is <<left, top, right, bottom>> with   *)
(*    inclusive corners, as QRect stores it; Python's None is <<>>.        *)
(*  - A QPixmap is a record: the capture it shows (src), the offset of its *)
(*    pixel (0,0) in that capture (ox, oy), the extent of the capture it   *)
(*    shows (sw, sh), its own pixel size (w, h) and the pixels painted     *)
(*    over the capture (ink, a set of <<x, y, colour>>).  Two pixmaps are  *)
(*    pixel-identical iff the records are equal.  The device pixel ratio   *)
(*    is 1.  A painted line is tracked by its two end pixels, a painted    *)
(*    rectangle by its two corner pixels, a text by its anchor pixel.      *)
(*  - Widget 0 is the CaptureOverlay (the editor); widgets 1..MaxPinned    *)
(*    are PinnedOverlay objects in the order of their construction.        *)
(*  - The program state is the variables ov, bar, app, crashed; a handler  *)
(*    is an operator from a state record to a state record, so that a      *)
(*    handler that calls another handler is their composition.  grab is    *)
(*    the event loop's: the widget the pressed mouse button belongs to.    *)
(*  - pre and event are history variables: the program state before the    *)
(*    last event and the event itself, so that what one handler does to    *)
(*    the state is a property of a single state.                           *)
(*  - An uncaught Python exception in a Qt event handler ends the program  *)
(*    (crashed = TRUE).                                                    *)
(***************************************************************************)
EXTENDS Integers, Sequences, FiniteSets, TLC

VARIABLES
    ov,       \* widget id -> the fields of that OverlayBase object
    bar,      \* the fields of the single ActionBar
    app,      \* the fields of the AppController
    crashed,  \* an uncaught exception has ended the program
    grab,     \* the widget a mouse button is held on (Qt's mouse grabber)
    pre,      \* history: the state record before the last event
    event     \* history: the last event delivered

vars == <<ov, bar, app, crashed, grab, pre, event>>

---------------------------------------------------------------------------
(* Program constants                                                       *)

RESIZE_HANDLE_SIZE == 8
MIN_SIZE == 2
MAX_HISTORY == 20
KEYBOARD_STEP_SMALL == 1
KEYBOARD_STEP_LARGE == 10
DEFAULT_PEN_WIDTH == 2
DEFAULT_FONT_SIZE == 16
DEFAULT_PEN_COLOR == "red"

\* max(offset for _, offset in GLOW_LAYERS)
GLOW_SIZE == 9

---------------------------------------------------------------------------
(* Bounds of the model                                                     *)

\* PinnedOverlay objects constructed in one run
MaxPinned == 1
\* screen grabs taken in one run
MaxCaptures == 2
\* the virtual desktop (the editor widget and its pixmap), in pixels
CanvasW == 31
CanvasH == 20
\* snapshots up to the index of a history beyond which the user starts no
\* gesture that commits another one
MaxDepth == 2

Editor == 0
Widgets == 0..MaxPinned
NoWidget == -1
IsPinned(w) == w # Editor

None == <<>>
NonePix == [null |-> TRUE]
Modes == <<"pen", "rectangle", "line", "text">>
ModeSet == {"pen", "rectangle", "line", "text"}

Min(a, b) == IF a <= b THEN a ELSE b
Max(a, b) == IF a >= b THEN a ELSE b
Abs(a) == IF a >= 0 THEN a ELSE -a

---------------------------------------------------------------------------
(* QPoint / QRect                                                          *)

\* QRect(topLeft, bottomRight)
RectOf(p1, p2) == <<p1[1], p1[2], p2[1], p2[2]>>

Left(r) == r[1]
Top(r) == r[2]
Right(r) == r[3]
Bottom(r) == r[4]
RWidth(r) == r[3] - r[1] + 1
RHeight(r) == r[4] - r[2] + 1
TopLeft(r) == <<r[1], r[2]>>
BottomRight(r) == <<r[3], r[4]>>

\* QRect.normalized() of Qt 6: a rectangle of negative extent has its
\* corners swapped and turned from non-inclusive to inclusive
Normalized(r) ==
    LET xs == IF r[3] < r[1] THEN <<r[3] + 1, r[1] - 1>> ELSE <<r[1], r[3]>>
        ys == IF r[4] < r[2] THEN <<r[4] + 1, r[2] - 1>> ELSE <<r[2], r[4]>>
    IN  <<xs[1], ys[1], xs[2], ys[2]>>

Adjusted(r, dx1, dy1, dx2, dy2) == <<r[1] + dx1, r[2] + dy1, r[3] + dx2, r[4] + dy2>>

\* QRect.contains(QPoint) of a rectangle; an empty rectangle holds nothing
Contains(r, p) ==
    /\ r[1] <= r[3] /\ r[2] <= r[4]
    /\ r[1] <= p[1] /\ p[1] <= r[3]
    /\ r[2] <= p[2] /\ p[2] <= r[4]

PtAdd(p, q) == <<p[1] + q[1], p[2] + q[2]>>
PtSub(p, q) == <<p[1] - q[1], p[2] - q[2]>>

---------------------------------------------------------------------------
(* QPixmap                                                                 *)

\* the pixmap AppController._capture_all_screens returns for grab number id
GrabPixmap(id) ==
    [src |-> id, ox |-> 0, oy |-> 0, sw |-> CanvasW, sh |-> CanvasH,
     w |-> CanvasW, h |-> CanvasH, ink |-> {}]

\* QPixmap.copy(): a deep copy, pixel-identical to the original
CopyPixmap(p) == p

\* QPixmap.copy(rect): the pixels of rect, as a pixmap of rect's size
CopyRect(p, r) ==
    [src |-> p.src, ox |-> p.ox + Left(r), oy |-> p.oy + Top(r),
     sw |-> RWidth(r), sh |-> RHeight(r), w |-> RWidth(r), h |-> RHeight(r),
     ink |-> {<<m[1] - Left(r), m[2] - Top(r), m[3]>> :
                 m \in {n \in p.ink : Contains(r, <<n[1], n[2]>>)}}]

InPixmap(p, pt) == pt[1] >= 0 /\ pt[1] < p.w /\ pt[2] >= 0 /\ pt[2] < p.h

\* one pixel painted with colour c (clipped to the pixmap)
PaintPoint(p, pt, c) ==
    IF InPixmap(p, pt)
    THEN [p EXCEPT !.ink = {m \in @ : <<m[1], m[2]>> # pt} \cup {<<pt[1], pt[2], c>>}]
    ELSE p

\* QPainter.drawLine(a, b) / QPainter.drawRect(QRect(a, b)) on pixmap p
DrawLine(p, a, b, c) == PaintPoint(PaintPoint(p, a, c), b, c)
DrawRect(p, r, c) == PaintPoint(PaintPoint(p, TopLeft(r), c), BottomRight(r), c)

\* QPainter.drawPixmap(target, q, q.rect()) on pixmap p, target of q's size:
\* the pixels of target are replaced by those of q
DrawPixmap(p, target, q) ==
    [p EXCEPT !.ink =
        {m \in @ : ~Contains(target, <<m[1], m[2]>>)}
        \cup {n \in {<<m[1] + Left(target), m[2] + Top(target), m[3]>> : m \in q.ink} :
                 InPixmap(p, <<n[1], n[2]>>)}]

\* QPixmap.scaled(nw, nh, IgnoreAspectRatio, SmoothTransformation)
Scaled(p, nw, nh) ==
    IF nw <= 0 \/ nh <= 0
    THEN [p EXCEPT !.w = 0, !.h = 0, !.ink = {}]
    ELSE [p EXCEPT !.w = nw, !.h = nh,
                   !.ink = {<<(m[1] * nw) \div p.w, (m[2] * nh) \div p.h, m[3]>> : m \in @}]

---------------------------------------------------------------------------
(* The state record a handler works on                                     *)

St == [ov |-> ov, bar |-> bar, app |-> app, crashed |-> crashed]

Becomes(s) ==
    /\ ov' = s.ov
    /\ bar' = s.bar
    /\ app' = s.app
    /\ crashed' = s.crashed

\* an uncaught exception
Raise(s) == [s EXCEPT !.crashed = TRUE]

---------------------------------------------------------------------------
(* OverlayBase: properties                                                 *)

\* OverlayBase.__init__ and the attributes the subclasses add
NewOverlay(isEditor) ==
    [created |-> isEditor, visible |-> FALSE, display_id |-> 0,
     base_pixmap |-> NonePix, annotation_states |-> <<>>, undo_redo_index |-> -1,
     dragging |-> FALSE, drag_offset |-> <<0, 0>>,
     resizing |-> FALSE, resize_edge |-> "",
     \* CaptureOverlay
     start_pos |-> None, end_pos |-> None, selecting |-> FALSE,
     current_snapshot_index |-> -1,
     \* the gallery entry (1-based, 0: none) whose start_pos / end_pos are the
     \* very QPoint objects this overlay's start_pos / end_pos refer to
     pos_alias |-> 0,
     \* PinnedOverlay
     original_pixmap |-> NonePix, aspect_ratio |-> <<1, 1>>, opacity |-> 100]

\* CaptureOverlay.content_rect / PinnedOverlay.content_rect; the latter reads
\* base_pixmap.width() and raises on a released pixmap
ContentRectRaises(s, w) == IsPinned(w) /\ s.ov[w].base_pixmap = NonePix

content_rect(s, w) ==
    LET o == s.ov[w] IN
    IF IsPinned(w)
    THEN <<GLOW_SIZE, GLOW_SIZE, GLOW_SIZE + o.base_pixmap.w - 1, GLOW_SIZE + o.base_pixmap.h - 1>>
    ELSE IF o.start_pos # None /\ o.end_pos # None
         THEN Normalized(RectOf(o.start_pos, o.end_pos))
         ELSE None

\* self.width(), self.height() of the widget
WidgetWidth(s, w) ==
    IF IsPinned(w) THEN RWidth(content_rect(s, w)) + 2 * GLOW_SIZE ELSE CanvasW
WidgetHeight(s, w) ==
    IF IsPinned(w) THEN RHeight(content_rect(s, w)) + 2 * GLOW_SIZE ELSE CanvasH

\* variant: the edges are tested before the corners
_get_resize_edge_edges_first(s, w, pos) ==
    LET margin == RESIZE_HANDLE_SIZE
        rect == content_rect(s, w)
    IN  IF rect = None THEN ""
        ELSE IF ~Contains(Adjusted(rect, -margin, -margin, margin, margin), pos) THEN ""
        ELSE LET at_left == Abs(pos[1] - Left(rect)) <= margin
                 at_right == Abs(pos[1] - Right(rect)) <= margin
                 at_top == Abs(pos[2] - Top(rect)) <= margin
                 at_bottom == Abs(pos[2] - Bottom(rect)) <= margin
             IN  IF at_top THEN "top"
                 ELSE IF at_bottom THEN "bottom"
                 ELSE IF at_left THEN "left"
                 ELSE IF at_right THEN "right"
                 ELSE ""

\* OverlayBase._get_resize_edge
_get_resize_edge(s, w, pos) ==
    LET margin == RESIZE_HANDLE_SIZE
        rect == content_rect(s, w)
    IN  IF rect = None THEN ""
        ELSE IF ~Contains(Adjusted(rect, -margin, -margin, margin, margin), pos) THEN ""
        ELSE LET at_left == Abs(pos[1] - Left(rect)) <= margin
                 at_right == Abs(pos[1] - Right(rect)) <= margin
                 at_top == Abs(pos[2] - Top(rect)) <= margin
                 at_bottom == Abs(pos[2] - Bottom(rect)) <= margin
             IN  IF at_left /\ at_top THEN "top-left"
                 ELSE IF at_right /\ at_top THEN "top-right"
                 ELSE IF at_left /\ at_bottom THEN "bottom-left"
                 ELSE IF at_right /\ at_bottom THEN "bottom-right"
                 ELSE IF at_top THEN "top"
                 ELSE IF at_bottom THEN "bottom"
                 ELSE IF at_left THEN "left"
                 ELSE IF at_right THEN "right"
                 ELSE ""

\* CaptureOverlay._get_content_for_export / PinnedOverlay._get_content_for_export:
\* the pair (pixmap, rect); (NonePix, None) stands for (None, None)
ExportValid(s, w) ==
    LET r == content_rect(s, w) IN
    r # None /\ RWidth(r) > MIN_SIZE /\ RHeight(r) > MIN_SIZE

\* the editor reads base_pixmap.devicePixelRatio() once the region is valid
ExportRaises(s, w) ==
    ~IsPinned(w) /\ ExportValid(s, w) /\ s.ov[w].base_pixmap = NonePix

_get_content_for_export(s, w) ==
    IF IsPinned(w) THEN <<s.ov[w].base_pixmap, None>>
    ELSE IF ExportValid(s, w)
         THEN <<CopyRect(s.ov[w].base_pixmap, content_rect(s, w)), content_rect(s, w)>>
         ELSE <<NonePix, None>>

---------------------------------------------------------------------------
(* OverlayBase: the undo / redo history                                    *)

\* OverlayBase._init_annotation_states
_init_annotation_states(s, w) ==
    [s EXCEPT !.ov[w].annotation_states = <<>>, !.ov[w].undo_redo_index = -1]

\* annotation_states[:undo_redo_index + 1]
\* variant: the redo branch is not dropped before the append
KeptStatesAll(states, index) == states

KeptStates(states, index) == SubSeq(states, 1, Min(index + 1, Len(states)))

\* variant: a full list drops the new state instead of the oldest
StatesAfterSaveDropNewest(states, index, state) ==
    LET appended == Append(KeptStates(states, index), state) IN
    IF Len(appended) > MAX_HISTORY THEN SubSeq(appended, 1, MAX_HISTORY) ELSE appended

\* the list after the new state is appended and the bound is enforced,
\* and the index that goes with it
StatesAfterSave(states, index, state) ==
    LET appended == Append(KeptStates(states, index), state) IN
    IF Len(appended) > MAX_HISTORY THEN Tail(appended) ELSE appended

IndexAfterSave(states, index) ==
    IF Len(KeptStates(states, index)) + 1 > MAX_HISTORY THEN index ELSE index + 1

\* OverlayBase._save_annotation_state; cropped.copy() raises on None
_save_annotation_state(s, w) ==
    IF s.crashed THEN s
    ELSE IF ExportRaises(s, w) \/ _get_content_for_export(s, w)[1] = NonePix THEN Raise(s)
    ELSE LET o == s.ov[w]
             exported == _get_content_for_export(s, w)
             state == [screenshot |-> CopyPixmap(exported[1]), selection_rect |-> exported[2]]
         IN  [s EXCEPT !.ov[w].annotation_states =
                           StatesAfterSave(o.annotation_states, o.undo_redo_index, state),
                       !.ov[w].undo_redo_index =
                           IndexAfterSave(o.annotation_states, o.undo_redo_index)]

\* OverlayBase._restore_annotation_state; annotation_states[index] raises
\* IndexError outside the list, and a QPainter on no pixmap paints nothing
_restore_annotation_state(s, w, index) ==
    IF s.crashed THEN s
    ELSE IF index < 0 \/ index >= Len(s.ov[w].annotation_states) THEN Raise(s)
    ELSE LET state == s.ov[w].annotation_states[index + 1] IN
         IF IsPinned(w)
         THEN [s EXCEPT !.ov[w].base_pixmap = CopyPixmap(state.screenshot)]
         ELSE IF s.ov[w].base_pixmap = NonePix THEN s
         ELSE IF state.selection_rect = None THEN Raise(s)
         ELSE [s EXCEPT !.ov[w].base_pixmap =
                            DrawPixmap(@, state.selection_rect, state.screenshot)]

\* variant: undo without the index > 0 guard
undo_action_unguarded(s, w) ==
    IF s.crashed THEN s
    ELSE _restore_annotation_state(
             [s EXCEPT !.ov[w].undo_redo_index = @ - 1], w, s.ov[w].undo_redo_index - 1)

\* OverlayBase.undo_action
undo_action(s, w) ==
    IF s.crashed THEN s
    ELSE IF s.ov[w].undo_redo_index > 0
    THEN _restore_annotation_state(
             [s EXCEPT !.ov[w].undo_redo_index = @ - 1], w, s.ov[w].undo_redo_index - 1)
    ELSE s

\* OverlayBase.redo_action
redo_action(s, w) ==
    IF s.crashed THEN s
    ELSE IF s.ov[w].undo_redo_index < Len(s.ov[w].annotation_states) - 1
    THEN _restore_annotation_state(
             [s EXCEPT !.ov[w].undo_redo_index = @ + 1], w, s.ov[w].undo_redo_index + 1)
    ELSE s

\* OverlayBase.closeEvent, and PinnedOverlay.closeEvent on top of it
closeEvent(s, w) ==
    IF s.crashed THEN s
    ELSE LET base == [s EXCEPT !.bar.visible = FALSE,
                               !.ov[w].annotation_states = <<>>,
                               !.ov[w].base_pixmap = NonePix,
                               !.ov[w].visible = FALSE]
         IN  IF IsPinned(w)
             THEN [base EXCEPT !.ov[w].original_pixmap = NonePix,
                               !.app.pinned_windows = SelectSeq(@, LAMBDA x : x # w)]
             ELSE base

---------------------------------------------------------------------------
(* ActionBar                                                               *)

\* ActionBar.__init__
NewBar ==
    [visible |-> FALSE, linked_widget |-> NoWidget,
     checked |-> [m \in ModeSet |-> FALSE], pin_enabled |-> TRUE,
     font_size |-> DEFAULT_FONT_SIZE, current_pen_color |-> DEFAULT_PEN_COLOR,
     pen_width |-> DEFAULT_PEN_WIDTH,
     \* text_input: None, or <<text>> for a QLineEdit holding text
     text_input |-> None, text_input_pos |-> None,
     \* of the QLineEdit: the overlay it is a child of, whether it is the
     \* focus widget of that overlay's window, and whether its text was edited
     \* since it last emitted editingFinished
     text_input_parent |-> NoWidget, text_input_focus |-> FALSE,
     text_input_edited |-> FALSE,
     drawing |-> FALSE, last_point |-> <<0, 0>>, last_point_clamped |-> FALSE,
     draw_start_point |-> <<0, 0>>, preview_rect |-> None, preview_line |-> None]

\* ActionBar._get_active_draw_mode ("" for None)
_get_active_draw_mode(s) ==
    IF \E i \in 1..Len(Modes) : s.bar.checked[Modes[i]]
    THEN Modes[CHOOSE i \in 1..Len(Modes) :
                  /\ s.bar.checked[Modes[i]]
                  /\ \A j \in 1..(i - 1) : ~s.bar.checked[Modes[j]]]
    ELSE ""

\* ActionBar.is_any_draw_tool_active
is_any_draw_tool_active(s) == \E m \in ModeSet : s.bar.checked[m]

\* ActionBar.deactivate_draw_tools (exclude: a mode, or "" for None)
deactivate_draw_tools(s, exclude) ==
    [s EXCEPT !.bar.checked = [m \in ModeSet |-> IF m = exclude THEN @[m] ELSE FALSE]]

\* variant: the click toggles the button and the other tools stay as they are
_tool_button_handler_toggle(s, mode) == [s EXCEPT !.bar.checked[mode] = ~@]

\* a click on a checkable tool button toggles it, then ActionBar._tool_button_handler
_tool_button_handler(s, mode) ==
    LET toggled == [s EXCEPT !.bar.checked[mode] = ~@] IN
    IF toggled.bar.checked[mode]
    THEN deactivate_draw_tools(toggled, mode)
    ELSE toggled

\* ActionBar._position: reads linked_widget.content_rect.right() for an editor
PositionRaises(s) ==
    \/ s.bar.linked_widget = NoWidget
    \/ /\ ~IsPinned(s.bar.linked_widget)
       /\ content_rect(s, s.bar.linked_widget) = None

_position(s) == IF s.crashed THEN s ELSE IF PositionRaises(s) THEN Raise(s) ELSE s

\* ActionBar.popup_for
popup_for(s, linked) ==
    IF s.crashed THEN s
    ELSE LET s1 == _position([s EXCEPT !.bar.linked_widget = linked,
                                       !.bar.pin_enabled = ~IsPinned(linked)])
         IN  IF s1.crashed THEN s1 ELSE [s1 EXCEPT !.bar.visible = TRUE]

\* ActionBar.dismiss
dismiss(s) ==
    IF s.crashed THEN s ELSE [deactivate_draw_tools(s, "") EXCEPT !.bar.visible = FALSE]

\* ActionBar._window_to_pixmap_pos
_window_to_pixmap_pos(s, pos) ==
    IF s.bar.linked_widget # NoWidget /\ IsPinned(s.bar.linked_widget)
    THEN <<pos[1] - GLOW_SIZE, pos[2] - GLOW_SIZE>>
    ELSE pos

\* ActionBar._clamp_pos_to_only_pixmap
ClampRaises(s) ==
    /\ s.bar.linked_widget # NoWidget
    /\ \/ ContentRectRaises(s, s.bar.linked_widget)
       \/ content_rect(s, s.bar.linked_widget) = None

_clamp_pos_to_only_pixmap(s, pos, for_container_window) ==
    IF s.bar.linked_widget = NoWidget THEN pos
    ELSE LET rect == content_rect(s, s.bar.linked_widget)
             pen_half_width == s.bar.pen_width \div 2
             clamped_pos ==
                 <<Max(Left(rect) + 1 + pen_half_width,
                       Min(pos[1], Right(rect) - 1 - pen_half_width)),
                   Max(Top(rect) + 1 + pen_half_width,
                       Min(pos[2], Bottom(rect) - 1 - pen_half_width))>>
         IN  IF for_container_window THEN clamped_pos
             ELSE _window_to_pixmap_pos(s, clamped_pos)

\* variant: the snapshot at the index of a pinned overlay is the painted
\* pixmap itself, not a copy of it
PaintLinkedShared(s, painted) ==
    LET lw == s.bar.linked_widget
        i == s.ov[lw].undo_redo_index
    IN  IF s.ov[lw].base_pixmap = NonePix THEN s
        ELSE IF IsPinned(lw) /\ i >= 0 /\ i < Len(s.ov[lw].annotation_states)
        THEN [s EXCEPT !.ov[lw].base_pixmap = painted,
                       !.ov[lw].annotation_states[i + 1].screenshot = painted]
        ELSE [s EXCEPT !.ov[lw].base_pixmap = painted]

\* QPainter(linked_widget.base_pixmap) ... painter.end(): the pixmap after the
\* painting; a painter on no pixmap is not active and paints nothing
PaintLinked(s, painted) ==
    IF s.ov[s.bar.linked_widget].base_pixmap = NonePix THEN s
    ELSE [s EXCEPT !.ov[s.bar.linked_widget].base_pixmap = painted]

\* text_input.deleteLater(); text_input = None; text_input_pos = None
DeleteTextInput(s) ==
    [s EXCEPT !.bar.text_input = None, !.bar.text_input_pos = None,
              !.bar.text_input_parent = NoWidget, !.bar.text_input_focus = FALSE,
              !.bar.text_input_edited = FALSE]

\* ActionBar._finalize_text_input; font is None when _add_text_annotation calls
\* it, and font.setPointSize then raises inside the painting
_finalize_text_input(s, has_font) ==
    IF s.crashed THEN s
    ELSE IF s.bar.text_input = None \/ s.bar.text_input_pos = None
            \/ s.bar.text_input_pos = <<0, 0>>
    THEN s
    ELSE LET text == s.bar.text_input[1]
             pos == _window_to_pixmap_pos(s, s.bar.text_input_pos)
             anchor == <<pos[1] + 2, pos[2] + 1>>
             lw == s.bar.linked_widget
             drawn == IF text = "" THEN s
                      ELSE IF ~has_font THEN Raise(s)
                      ELSE _save_annotation_state(
                               PaintLinked(s, PaintPoint(s.ov[lw].base_pixmap, anchor,
                                                         s.bar.current_pen_color)), lw)
         IN  IF drawn.crashed THEN drawn ELSE DeleteTextInput(drawn)

\* ActionBar._add_text_annotation
_add_text_annotation(s, pos) ==
    LET s1 == IF s.bar.text_input # None THEN _finalize_text_input(s, FALSE) ELSE s IN
    IF s1.crashed THEN s1
    ELSE [s1 EXCEPT !.bar.text_input_pos = pos, !.bar.text_input = <<"">>,
                    !.bar.text_input_parent = s1.bar.linked_widget,
                    !.bar.text_input_focus = TRUE,
                    !.bar.text_input_edited = FALSE]

\* ActionBar.handle_mouse_press: whether it returns True, and its effect
HandlesMousePress(s) == s.bar.linked_widget # NoWidget /\ is_any_draw_tool_active(s)

handle_mouse_press(s, pos) ==
    IF s.crashed \/ ~HandlesMousePress(s) THEN s
    ELSE IF _get_active_draw_mode(s) = "text" THEN _add_text_annotation(s, pos)
    ELSE [s EXCEPT !.bar.drawing = TRUE, !.bar.last_point = pos,
                   !.bar.last_point_clamped = FALSE, !.bar.draw_start_point = pos]

\* ActionBar.handle_mouse_move (buttons: a mouse button is held)
handle_mouse_move(s, pos, buttons) ==
    IF s.crashed \/ ~HandlesMousePress(s) THEN s
    ELSE IF ~(s.bar.drawing /\ buttons) THEN s
    ELSE LET draw_mode == _get_active_draw_mode(s)
             lw == s.bar.linked_widget
         IN
         IF draw_mode = "pen"
         THEN IF s.bar.last_point_clamped THEN s
              ELSE IF ClampRaises(s) THEN Raise(s)
              ELSE LET rect == content_rect(s, lw)
                       pen_half_width == s.bar.pen_width \div 2
                       draw_rect == Adjusted(rect, pen_half_width, pen_half_width,
                                             -pen_half_width, -pen_half_width)
                       outside == ~Contains(draw_rect, pos)
                       p == IF outside THEN _clamp_pos_to_only_pixmap(s, pos, TRUE) ELSE pos
                       s1 == [s EXCEPT !.bar.last_point_clamped = IF outside THEN TRUE ELSE @]
                       s2 == PaintLinked(s1,
                                 DrawLine(s1.ov[lw].base_pixmap,
                                          _window_to_pixmap_pos(s1, s1.bar.last_point),
                                          _window_to_pixmap_pos(s1, p),
                                          s1.bar.current_pen_color))
                   IN  [s2 EXCEPT !.bar.last_point = p]
         ELSE IF draw_mode = "rectangle"
         THEN IF ClampRaises(s) THEN Raise(s)
              ELSE [s EXCEPT !.bar.preview_rect =
                       Normalized(RectOf(s.bar.draw_start_point,
                                         _clamp_pos_to_only_pixmap(s, pos, TRUE)))]
         ELSE IF draw_mode = "line"
         THEN IF ClampRaises(s) THEN Raise(s)
              ELSE [s EXCEPT !.bar.preview_line =
                       <<s.bar.draw_start_point, _clamp_pos_to_only_pixmap(s, pos, TRUE)>>]
         ELSE s

\* variant: the start point is taken as it was pressed, not clamped
_finalize_sharp_start_unclamped(s, end_point) ==
    IF s.crashed THEN s
    ELSE LET draw_mode == _get_active_draw_mode(s)
             lw == s.bar.linked_widget
             a == _window_to_pixmap_pos(s, s.bar.draw_start_point)
             b == _clamp_pos_to_only_pixmap(s, end_point, FALSE)
             painted ==
                 IF draw_mode = "rectangle"
                 THEN IF ClampRaises(s) THEN Raise(s)
                      ELSE [PaintLinked(s, DrawRect(s.ov[lw].base_pixmap,
                                                    Normalized(RectOf(a, b)),
                                                    s.bar.current_pen_color))
                               EXCEPT !.bar.preview_rect = None]
                 ELSE IF draw_mode = "line"
                 THEN IF ClampRaises(s) THEN Raise(s)
                      ELSE [PaintLinked(s, DrawLine(s.ov[lw].base_pixmap, a, b,
                                                    s.bar.current_pen_color))
                               EXCEPT !.bar.preview_line = None]
                 ELSE s
         IN  _save_annotation_state(painted, lw)

\* ActionBar._finalize_sharp
_finalize_sharp(s, end_point) ==
    IF s.crashed THEN s
    ELSE LET draw_mode == _get_active_draw_mode(s)
             lw == s.bar.linked_widget
             a == _clamp_pos_to_only_pixmap(s, s.bar.draw_start_point, FALSE)
             b == _clamp_pos_to_only_pixmap(s, end_point, FALSE)
             painted ==
                 IF draw_mode = "rectangle"
                 THEN IF ClampRaises(s) THEN Raise(s)
                      ELSE [PaintLinked(s, DrawRect(s.ov[lw].base_pixmap,
                                                    Normalized(RectOf(a, b)),
                                                    s.bar.current_pen_color))
                               EXCEPT !.bar.preview_rect = None]
                 ELSE IF draw_mode = "line"
                 THEN IF ClampRaises(s) THEN Raise(s)
                      ELSE [PaintLinked(s, DrawLine(s.ov[lw].base_pixmap, a, b,
                                                    s.bar.current_pen_color))
                               EXCEPT !.bar.preview_line = None]
                 ELSE s
         IN  _save_annotation_state(painted, lw)

---------------------------------------------------------------------------
(* CaptureOverlay                                                          *)

\* the two QPoint objects of the editor are rebound to the points a and b,
\* shared with no gallery entry
RebindCorners(s, a, b) ==
    [s EXCEPT !.ov[Editor].start_pos = a, !.ov[Editor].end_pos = b,
              !.ov[Editor].pos_alias = 0]

\* the two QPoint objects of the editor are changed in place (setX, setY):
\* a gallery entry that refers to the same objects changes with them
MutateCorners(s, a, b) ==
    LET k == s.ov[Editor].pos_alias
        s1 == [s EXCEPT !.ov[Editor].start_pos = a, !.ov[Editor].end_pos = b]
    IN  IF k = 0 THEN s1
        ELSE [s1 EXCEPT !.app.screenshot_snapshots[k].start_pos = a,
                        !.app.screenshot_snapshots[k].end_pos = b]

\* CaptureOverlay.new_capture
new_capture(s, full_screen) ==
    [s EXCEPT !.ov[Editor].display_id = @ + 1,
              !.ov[Editor].base_pixmap = full_screen,
              !.ov[Editor].start_pos = None,
              !.ov[Editor].end_pos = None,
              !.ov[Editor].pos_alias = 0,
              !.ov[Editor].selecting = FALSE,
              !.ov[Editor].current_snapshot_index = -1]

\* variant: the moved edge follows the pointer with no MIN_SIZE clamp
ResizedCornersUnclamped(o, mouse_x, mouse_y) ==
    LET e == o.resize_edge
        nsx == IF e \in {"left", "top-left", "bottom-left"} THEN mouse_x ELSE o.start_pos[1]
        nex == IF e \in {"right", "top-right", "bottom-right"} THEN mouse_x ELSE o.end_pos[1]
        nsy == IF e \in {"top", "top-left", "top-right"} THEN mouse_y ELSE o.start_pos[2]
        ney == IF e \in {"bottom", "bottom-left", "bottom-right"} THEN mouse_y ELSE o.end_pos[2]
    IN  <<<<nsx, nsy>>, <<nex, ney>>>>

\* CaptureOverlay._apply_resize (keep_aspect is not read)
ResizedCorners(o, mouse_x, mouse_y) ==
    LET e == o.resize_edge
        sx == o.start_pos[1]
        sy == o.start_pos[2]
        ex == o.end_pos[1]
        ey == o.end_pos[2]
        \* the operations of one edge run in the order written: X, then Y
        nsx == IF e \in {"left", "top-left", "bottom-left"}
               THEN Min(mouse_x, ex - MIN_SIZE) ELSE sx
        nex == IF e \in {"right", "top-right", "bottom-right"}
               THEN Max(mouse_x, sx + MIN_SIZE) ELSE ex
        nsy == IF e \in {"top", "top-left", "top-right"}
               THEN Min(mouse_y, ey - MIN_SIZE) ELSE sy
        ney == IF e \in {"bottom", "bottom-left", "bottom-right"}
               THEN Max(mouse_y, sy + MIN_SIZE) ELSE ey
    IN  <<<<nsx, nsy>>, <<nex, ney>>>>

CaptureOverlay_apply_resize(s, mouse_x, mouse_y, keep_aspect) ==
    LET o == s.ov[Editor] IN
    IF s.crashed THEN s
    ELSE IF o.resize_edge = "" THEN s
    ELSE IF o.start_pos = None \/ o.end_pos = None THEN Raise(s)
    ELSE LET c == ResizedCorners(o, mouse_x, mouse_y) IN MutateCorners(s, c[1], c[2])

\* CaptureOverlay._move_selection
MovedCorners(o, new_pos) ==
    LET delta_x == o.end_pos[1] - o.start_pos[1]
        delta_y == o.end_pos[2] - o.start_pos[2]
        new_x == Max(0, Min(new_pos[1], CanvasW - Abs(delta_x)))
        new_y == Max(0, Min(new_pos[2], CanvasH - Abs(delta_y)))
    IN  <<<<new_x, new_y>>, <<new_x + delta_x, new_y + delta_y>>>>

_move_selection(s, new_pos) ==
    LET o == s.ov[Editor] IN
    IF s.crashed THEN s
    ELSE IF o.start_pos = None \/ o.end_pos = None THEN Raise(s)
    ELSE LET c == MovedCorners(o, new_pos) IN RebindCorners(s, c[1], c[2])

\* variant: a full gallery keeps its entries and drops the new one
GalleryAfterAddDropNew(gallery, item) ==
    IF Len(gallery) >= MAX_HISTORY THEN gallery ELSE Append(gallery, item)

\* AppController._add_to_screenshot_snapshots
GalleryAfterAdd(gallery, item) ==
    LET appended == Append(gallery, item) IN
    IF Len(appended) > MAX_HISTORY THEN Tail(appended) ELSE appended

_add_to_screenshot_snapshots(s, screenshot, start_pos, end_pos) ==
    [s EXCEPT !.app.screenshot_snapshots =
        GalleryAfterAdd(@, [screenshot |-> CopyPixmap(screenshot),
                            start_pos |-> start_pos, end_pos |-> end_pos])]

\* variant: a selection of exactly MIN_SIZE is kept
TooSmallStrict(rect) == rect = None \/ RWidth(rect) < MIN_SIZE \/ RHeight(rect) < MIN_SIZE

\* the test of CaptureOverlay._finalize_selection for a selection to discard
TooSmall(rect) == rect = None \/ RWidth(rect) <= MIN_SIZE \/ RHeight(rect) <= MIN_SIZE

\* CaptureOverlay._finalize_selection
_finalize_selection(s) ==
    LET selection_rect == content_rect(s, Editor) IN
    IF s.crashed THEN s
    ELSE IF TooSmall(selection_rect)
    THEN RebindCorners(s, None, None)
    ELSE LET s1 == RebindCorners(s, TopLeft(selection_rect), BottomRight(selection_rect))
             s2 == popup_for(s1, Editor)
             s3 == _save_annotation_state(_init_annotation_states(s2, Editor), Editor)
         IN  IF s3.crashed THEN s3
             ELSE LET s4 == _add_to_screenshot_snapshots(
                                s3, s3.ov[Editor].base_pixmap,
                                s3.ov[Editor].start_pos, s3.ov[Editor].end_pos)
                  IN  [s4 EXCEPT !.ov[Editor].pos_alias = Len(s4.app.screenshot_snapshots),
                                 !.ov[Editor].current_snapshot_index = -1]

\* CaptureOverlay._handle_arrow_key_movement
ArrowDelta(key, step) ==
    CASE key = "Left" -> <<-step, 0>>
      [] key = "Right" -> <<step, 0>>
      [] key = "Up" -> <<0, -step>>
      [] key = "Down" -> <<0, step>>
      [] OTHER -> <<0, 0>>

_handle_arrow_key_movement(s, key, shift) ==
    LET step == IF shift THEN KEYBOARD_STEP_LARGE ELSE KEYBOARD_STEP_SMALL
        new_pos == PtAdd(s.ov[Editor].start_pos, ArrowDelta(key, step))
    IN  _position(_move_selection(s, new_pos))

\* CaptureOverlay._find_current_snapshot_index.  A gallery entry holds a
\* copy() of the grabbed pixmap and base_pixmap is the grab itself or another
\* copy(), so no cacheKey() of the gallery equals base_pixmap's.
_find_current_snapshot_index(s) ==
    LET i == s.ov[Editor].current_snapshot_index IN
    IF i >= 0 /\ i < Len(s.app.screenshot_snapshots) THEN i
    ELSE Len(s.app.screenshot_snapshots)

\* CaptureOverlay._restore_selection (reset_annotation = True), for the gallery
\* entry at the 0-based index
_restore_selection(s, index) ==
    LET snapshot == s.app.screenshot_snapshots[index + 1]
        s1 == [s EXCEPT !.ov[Editor].base_pixmap = CopyPixmap(snapshot.screenshot),
                        !.ov[Editor].start_pos = snapshot.start_pos,
                        !.ov[Editor].end_pos = snapshot.end_pos,
                        !.ov[Editor].pos_alias = index + 1]
        s2 == _save_annotation_state(_init_annotation_states(s1, Editor), Editor)
    IN  IF s2.crashed THEN s2
        ELSE IF content_rect(s2, Editor) # None THEN popup_for(s2, Editor) ELSE s2

\* CaptureOverlay._navigate_snapshots
_navigate_snapshots(s, direction) ==
    LET n == Len(s.app.screenshot_snapshots)
        new_index == _find_current_snapshot_index(s) + direction
    IN  IF s.crashed \/ n = 0 THEN s
        ELSE IF new_index < 0 \/ new_index >= n THEN s
        ELSE LET s1 == _restore_selection(s, new_index) IN
             IF s1.crashed THEN s1
             ELSE [s1 EXCEPT !.ov[Editor].current_snapshot_index = new_index]

---------------------------------------------------------------------------
(* PinnedOverlay                                                           *)

\* the widget id the next PinnedOverlay object gets (0: the bound is reached)
NextPinned(s) ==
    IF \E k \in 1..MaxPinned : ~s.ov[k].created
    THEN CHOOSE k \in 1..MaxPinned :
             ~s.ov[k].created /\ \A j \in 1..(k - 1) : s.ov[j].created
    ELSE 0

\* variant: the pinned overlay starts a history of its own
PinnedOverlay_init_fresh(s, k, pixmap, annotation_states, undo_redo_index) ==
    LET s1 == [s EXCEPT !.ov[k] =
                   [NewOverlay(FALSE) EXCEPT
                       !.created = TRUE,
                       !.display_id = k,
                       !.original_pixmap = CopyPixmap(pixmap),
                       !.aspect_ratio = <<pixmap.w, pixmap.h>>,
                       !.base_pixmap = pixmap,
                       !.opacity = 100]]
        s2 == _save_annotation_state(_init_annotation_states(s1, k), k)
    IN  IF s2.crashed THEN s2 ELSE [s2 EXCEPT !.ov[k].visible = TRUE]

\* PinnedOverlay.__init__ followed by show(), for widget id k
PinnedOverlay_init(s, k, pixmap, annotation_states, undo_redo_index) ==
    LET s1 == [s EXCEPT !.ov[k] =
                   [NewOverlay(FALSE) EXCEPT
                       !.created = TRUE,
                       !.display_id = k,
                       !.original_pixmap = CopyPixmap(pixmap),
                       !.aspect_ratio = <<pixmap.w, pixmap.h>>,
                       !.base_pixmap = pixmap,
                       !.opacity = 100]]
        s2 == IF annotation_states # <<>>
              THEN [s1 EXCEPT !.ov[k].annotation_states = annotation_states,
                              !.ov[k].undo_redo_index = undo_redo_index]
              ELSE _save_annotation_state(_init_annotation_states(s1, k), k)
    IN  IF s2.crashed THEN s2 ELSE [s2 EXCEPT !.ov[k].visible = TRUE]

\* PinnedOverlay._calculate_new_size: <<new_width, new_height>>;
\* int(new_width / aspect_ratio) with aspect_ratio = width / height
_calculate_new_size(s, k, mouse_x, mouse_y, keep_aspect) ==
    LET o == s.ov[k]
        e == o.resize_edge
        content_x == mouse_x - GLOW_SIZE
        content_y == mouse_y - GLOW_SIZE
        current_width == o.base_pixmap.w
        current_height == o.base_pixmap.h
        horizontal == e \in {"left", "right", "top-left", "top-right",
                             "bottom-left", "bottom-right"}
        vertical == e \in {"top", "bottom", "top-left", "top-right",
                           "bottom-left", "bottom-right"}
        w1 == IF e \in {"right", "top-right", "bottom-right"} THEN Max(MIN_SIZE, content_x)
              ELSE IF e \in {"left", "top-left", "bottom-left"}
                   THEN Max(MIN_SIZE, current_width - content_x)
              ELSE current_width
        h1 == IF e \in {"bottom", "bottom-left", "bottom-right"} THEN Max(MIN_SIZE, content_y)
              ELSE IF e \in {"top", "top-left", "top-right"}
                   THEN Max(MIN_SIZE, current_height - content_y)
              ELSE current_height
        h2 == IF keep_aspect /\ horizontal
              THEN (w1 * o.aspect_ratio[2]) \div o.aspect_ratio[1] ELSE h1
        w2 == IF keep_aspect /\ ~horizontal /\ vertical
              THEN (h1 * o.aspect_ratio[1]) \div o.aspect_ratio[2] ELSE w1
    IN  <<w2, h2>>

\* PinnedOverlay._apply_resize
PinnedOverlay_apply_resize(s, k, mouse_x, mouse_y, keep_aspect) ==
    LET o == s.ov[k] IN
    IF s.crashed THEN s
    ELSE IF o.base_pixmap = NonePix \/ o.original_pixmap = NonePix THEN Raise(s)
    ELSE LET size == _calculate_new_size(s, k, mouse_x, mouse_y, keep_aspect) IN
         IF size[1] = o.base_pixmap.w /\ size[2] = o.base_pixmap.h THEN s
         ELSE [s EXCEPT !.ov[k].base_pixmap = Scaled(o.original_pixmap, size[1], size[2])]

\* CaptureOverlay._apply_resize / PinnedOverlay._apply_resize
_apply_resize(s, w, mouse_x, mouse_y, keep_aspect) ==
    IF IsPinned(w) THEN PinnedOverlay_apply_resize(s, w, mouse_x, mouse_y, keep_aspect)
    ELSE CaptureOverlay_apply_resize(s, mouse_x, mouse_y, keep_aspect)

\* CaptureOverlay.pin_to_screen; PinnedOverlay.pin_to_screen does nothing
pin_to_screen(s, w) ==
    IF s.crashed \/ IsPinned(w) THEN s
    ELSE IF ExportRaises(s, w) THEN Raise(s)
    ELSE LET exported == _get_content_for_export(s, w)
             k == NextPinned(s)
             s1 == IF exported[1] # NonePix
                   THEN LET made == PinnedOverlay_init(s, k, exported[1],
                                        s.ov[w].annotation_states, s.ov[w].undo_redo_index)
                        IN  IF made.crashed THEN made
                            ELSE [made EXCEPT !.ov[w].annotation_states = <<>>,
                                              !.app.pinned_windows = Append(@, k)]
                   ELSE s
         IN  closeEvent(dismiss(s1), w)

---------------------------------------------------------------------------
(* ActionBar: export and keyboard shortcuts                                *)

\* ActionBar._copy_to_clipboard (clipboard_ok: QApplication.clipboard() is there)
_copy_to_clipboard(s, clipboard_ok) ==
    LET lw == s.bar.linked_widget IN
    IF s.crashed THEN s
    ELSE IF lw = NoWidget \/ ExportRaises(s, lw) THEN Raise(s)
    ELSE LET cropped == _get_content_for_export(s, lw)[1]
             s1 == closeEvent(s, lw)
         IN  IF cropped # NonePix /\ clipboard_ok
             THEN [s1 EXCEPT !.app.clipboard = cropped]
             ELSE s1

\* ActionBar._save_to_file (path_chosen: the dialog returned a path;
\* save_ok: QPixmap.save returned True)
_save_to_file(s, path_chosen, save_ok) ==
    LET lw == s.bar.linked_widget IN
    IF s.crashed THEN s
    ELSE IF lw = NoWidget \/ ExportRaises(s, lw) THEN Raise(s)
    ELSE LET cropped == _get_content_for_export(s, lw)[1]
             s1 == closeEvent(s, lw)
         IN  IF cropped # NonePix /\ path_chosen /\ save_ok
             THEN [s1 EXCEPT !.app.saved = Append(@, cropped)]
             ELSE s1

\* pin_btn.click(): a disabled button does not emit clicked
PinButtonClick(s) ==
    IF s.crashed \/ ~s.bar.pin_enabled THEN s
    ELSE IF s.bar.linked_widget = NoWidget THEN Raise(s)
    ELSE pin_to_screen(s, s.bar.linked_widget)

\* ActionBar.handle_key_press; key is "Z", "Y", "S", "C", "T", "1".."9" or
\* another key; env holds what the export dialogs answer
handle_key_press(s, key, ctrl, env) ==
    IF s.crashed \/ ~s.bar.visible THEN s
    ELSE IF ctrl
    THEN IF s.bar.linked_widget = NoWidget THEN Raise(s)
         ELSE CASE key = "Z" -> undo_action(s, s.bar.linked_widget)
                [] key = "Y" -> redo_action(s, s.bar.linked_widget)
                [] key = "S" -> _save_to_file(s, env.path_chosen, env.save_ok)
                [] key = "C" -> _copy_to_clipboard(s, env.clipboard_ok)
                [] key = "T" -> PinButtonClick(s)
                [] OTHER -> s
    ELSE CASE key = "1" -> _tool_button_handler(s, "pen")
           [] key = "2" -> _tool_button_handler(s, "rectangle")
           [] key = "3" -> _tool_button_handler(s, "line")
           [] key = "4" -> _tool_button_handler(s, "text")
           [] key = "5" -> [s EXCEPT !.bar.current_pen_color = env.color]
           [] OTHER -> s

\* ActionBar.handle_wheel_event
handle_wheel_event(s, delta_up) ==
    IF s.crashed \/ s.bar.linked_widget = NoWidget \/ ~is_any_draw_tool_active(s) THEN s
    ELSE IF s.bar.text_input # None
    THEN [s EXCEPT !.bar.font_size = IF delta_up THEN Min(72, @ + 2) ELSE Max(8, @ - 2)]
    ELSE s

---------------------------------------------------------------------------
(* OverlayBase and its subclasses: event handlers                          *)

\* OverlayBase.mousePressEvent
OverlayBase_mousePressEvent(s, w, pos) ==
    LET resize_edge == _get_resize_edge(s, w, pos) IN
    IF s.crashed THEN s
    ELSE IF ContentRectRaises(s, w) THEN Raise(s)
    ELSE IF resize_edge # ""
    THEN [s EXCEPT !.ov[w].resizing = TRUE, !.ov[w].resize_edge = resize_edge]
    ELSE IF HandlesMousePress(s) THEN handle_mouse_press(s, pos)
    ELSE [s EXCEPT !.ov[w].dragging = TRUE,
                   !.ov[w].drag_offset =
                       IF IsPinned(w) THEN pos
                       ELSE PtSub(pos, TopLeft(content_rect(s, w)))]

\* OverlayBase.mouseMoveEvent
OverlayBase_mouseMoveEvent(s, w, pos, shift, buttons) ==
    IF s.crashed THEN s
    ELSE IF ContentRectRaises(s, w) THEN Raise(s)
    ELSE IF s.ov[w].dragging
    THEN _position(IF IsPinned(w) THEN s
                   ELSE _move_selection(s, PtSub(pos, s.ov[w].drag_offset)))
    ELSE handle_mouse_move(
             IF s.ov[w].resizing
             THEN _position(_apply_resize(s, w, pos[1], pos[2], shift))
             ELSE s,
             pos, buttons)

\* OverlayBase.mouseReleaseEvent
OverlayBase_mouseReleaseEvent(s, w, pos) ==
    IF s.crashed THEN s
    ELSE IF ContentRectRaises(s, w) THEN Raise(s)
    ELSE IF s.bar.drawing
    THEN LET s1 == _finalize_sharp(s, pos) IN
         IF s1.crashed THEN s1 ELSE [s1 EXCEPT !.bar.drawing = FALSE]
    ELSE IF s.ov[w].dragging THEN [s EXCEPT !.ov[w].dragging = FALSE]
    ELSE IF s.ov[w].resizing
    THEN _save_annotation_state(
             [s EXCEPT !.ov[w].resizing = FALSE, !.ov[w].resize_edge = ""], w)
    ELSE s

\* CaptureOverlay.mousePressEvent / OverlayBase.mousePressEvent
mousePressEvent(s, w, pos) ==
    IF ~IsPinned(w) /\ content_rect(s, w) = None
    THEN [s EXCEPT !.ov[w].selecting = TRUE, !.ov[w].start_pos = pos,
                   !.ov[w].end_pos = pos, !.ov[w].pos_alias = 0]
    ELSE OverlayBase_mousePressEvent(s, w, pos)

\* CaptureOverlay.mouseMoveEvent / OverlayBase.mouseMoveEvent
mouseMoveEvent(s, w, pos, shift, buttons) ==
    IF ~IsPinned(w) /\ s.ov[w].selecting
    THEN [s EXCEPT !.ov[w].end_pos = pos, !.ov[w].pos_alias = 0]
    ELSE OverlayBase_mouseMoveEvent(s, w, pos, shift, buttons)

\* CaptureOverlay.mouseReleaseEvent / OverlayBase.mouseReleaseEvent
mouseReleaseEvent(s, w, pos) ==
    IF ~IsPinned(w) /\ s.ov[w].selecting
    THEN _finalize_selection([s EXCEPT !.ov[w].selecting = FALSE,
                                       !.ov[w].end_pos = pos, !.ov[w].pos_alias = 0])
    ELSE OverlayBase_mouseReleaseEvent(s, w, pos)

\* CaptureOverlay.keyPressEvent / OverlayBase.keyPressEvent
keyPressEvent(s, w, key, ctrl, shift, env) ==
    IF s.crashed THEN s
    ELSE IF ~IsPinned(w) /\ key = "Comma" THEN _navigate_snapshots(s, -1)
    ELSE IF ~IsPinned(w) /\ key = "Period" THEN _navigate_snapshots(s, 1)
    ELSE IF ~IsPinned(w) /\ key \in {"Left", "Right", "Up", "Down"}
            /\ content_rect(s, w) # None
    THEN _handle_arrow_key_movement(s, key, shift)
    ELSE handle_key_press(s, key, ctrl, env)

\* variant: the window is closed whatever was cancelled
_handle_esc_shortcut_closes(s, w) ==
    IF s.crashed THEN s
    ELSE IF s.bar.text_input # None THEN closeEvent(DeleteTextInput(s), w)
    ELSE IF is_any_draw_tool_active(s) THEN closeEvent(deactivate_draw_tools(s, ""), w)
    ELSE closeEvent(s, w)

\* OverlayBase._handle_esc_shortcut
_handle_esc_shortcut(s, w) ==
    IF s.crashed THEN s
    ELSE IF s.bar.text_input # None THEN DeleteTextInput(s)
    ELSE IF is_any_draw_tool_active(s) THEN deactivate_draw_tools(s, "")
    ELSE closeEvent(s, w)

\* PinnedOverlay._handle_space_shortcut
_handle_space_shortcut(s, w) ==
    IF s.crashed THEN s
    ELSE IF s.bar.visible THEN dismiss(s) ELSE popup_for(s, w)

\* variant: the double click hands the overlay's raster and history back to
\* the editor and opens it
mouseDoubleClickEvent_reopens(s, w) ==
    IF s.crashed THEN s
    ELSE [closeEvent(s, w) EXCEPT !.ov[Editor].visible = TRUE,
                                  !.ov[Editor].base_pixmap = s.ov[w].base_pixmap,
                                  !.ov[Editor].annotation_states = s.ov[w].annotation_states,
                                  !.ov[Editor].undo_redo_index = s.ov[w].undo_redo_index]

\* PinnedOverlay.mouseDoubleClickEvent
mouseDoubleClickEvent(s, w) == closeEvent(s, w)

\* CaptureOverlay.wheelEvent (away from the action bar) / PinnedOverlay.wheelEvent;
\* opacity in percent
wheelEvent(s, w, delta_up) ==
    IF s.crashed THEN s
    ELSE IF IsPinned(w)
    THEN [s EXCEPT !.ov[w].opacity = IF delta_up THEN Min(100, @ + 5) ELSE Max(10, @ - 5)]
    ELSE handle_wheel_event(s, delta_up)

---------------------------------------------------------------------------
(* AppController                                                           *)

\* a QScreen is its geometry() in logical pixels and its devicePixelRatio()
\* in quarters (4 is 1.0, 5 is 1.25, 6 is 1.5, 8 is 2.0).  QApplication.screens()
\* of the desktop the editor's canvas is grabbed from: one screen at ratio 1.0
Desktop ==
    {[left |-> 0, top |-> 0, width |-> CanvasW, height |-> CanvasH, dpr4 |-> 4]}

SetMin(S) == CHOOSE x \in S : \A y \in S : x <= y
SetMax(S) == CHOOSE x \in S : \A y \in S : x >= y

\* QRect.right() and QRect.bottom() of the geometry of a screen
ScreenRight(sc) == sc.left + sc.width - 1
ScreenBottom(sc) == sc.top + sc.height - 1

\* get_virtual_desktop_bounds: (min_x, min_y, max_x, max_y)
get_virtual_desktop_bounds(screens) ==
    IF screens = {} THEN <<0, 0, 0, 0>>
    ELSE <<SetMin({sc.left : sc \in screens}), SetMin({sc.top : sc \in screens}),
           SetMax({ScreenRight(sc) : sc \in screens}),
           SetMax({ScreenBottom(sc) : sc \in screens})>>

\* int(n * ratio) for a length n >= 0
ToDevice(n, dpr4) == (n * dpr4) \div 4

\* variant: every screen is drawn as it was grabbed, at its own ratio
_capture_all_screens_native(screens) ==
    IF screens = {} THEN None
    ELSE LET b == get_virtual_desktop_bounds(screens)
             max_dpr == SetMax({sc.dpr4 : sc \in screens})
         IN  [w |-> ToDevice(b[3] - b[1] + 1, max_dpr),
              h |-> ToDevice(b[4] - b[2] + 1, max_dpr),
              dpr4 |-> max_dpr,
              drawn |-> {[screen |-> sc, x |-> sc.left - b[1], y |-> sc.top - b[2],
                          w |-> ToDevice(sc.width, sc.dpr4),
                          h |-> ToDevice(sc.height, sc.dpr4),
                          dpr4 |-> sc.dpr4, scaled |-> FALSE] : sc \in screens}]

\* AppController._capture_all_screens, every screen grabbed (no null grab):
\* the size in device pixels and the ratio of the combined pixmap, and for
\* every screen the pixmap drawn (its size in device pixels, its ratio,
\* whether it went through scaled()) and the logical offset it is drawn at
_capture_all_screens(screens) ==
    IF screens = {} THEN None
    ELSE LET b == get_virtual_desktop_bounds(screens)
             virtual_width == b[3] - b[1] + 1
             virtual_height == b[4] - b[2] + 1
             max_dpr == SetMax({sc.dpr4 : sc \in screens})
         IN  [w |-> ToDevice(virtual_width, max_dpr),
              h |-> ToDevice(virtual_height, max_dpr),
              dpr4 |-> max_dpr,
              drawn |-> {[screen |-> sc, x |-> sc.left - b[1], y |-> sc.top - b[2],
                          w |-> ToDevice(sc.width, max_dpr),
                          h |-> ToDevice(sc.height, max_dpr),
                          dpr4 |-> max_dpr,
                          scaled |-> sc.dpr4 # max_dpr] : sc \in screens}]

\* AppController.__init__
NewApp ==
    [screenshot_snapshots |-> <<>>, pinned_windows |-> <<>>,
     \* screen grabs taken so far: the identity of the next grabbed pixmap
     grabs |-> 0,
     \* what QApplication.screens() returns, and the geometry of the pixmap
     \* the last _capture_all_screens combined
     screens |-> Desktop, combined |-> None,
     \* what the export sinks hold
     clipboard |-> NonePix, saved |-> <<>>]

\* variant: a request is not ignored while the editor is open
_prepare_fullscreen_capture_unguarded(s, grab_ok) ==
    IF s.crashed \/ s.app.screens = {} \/ ~grab_ok THEN s
    ELSE [new_capture([s EXCEPT !.app.grabs = @ + 1,
                                !.app.combined = _capture_all_screens(s.app.screens)],
                      GrabPixmap(s.app.grabs + 1))
             EXCEPT !.ov[Editor].visible = TRUE]

\* AppController._prepare_fullscreen_capture (grab_ok: the grab is not null)
_prepare_fullscreen_capture(s, grab_ok) ==
    IF s.crashed \/ s.ov[Editor].visible \/ s.app.screens = {} \/ ~grab_ok THEN s
    ELSE [new_capture([s EXCEPT !.app.grabs = @ + 1,
                                !.app.combined = _capture_all_screens(s.app.screens)],
                      GrabPixmap(s.app.grabs + 1))
             EXCEPT !.ov[Editor].visible = TRUE]

\* AppController._pin_clipboard_image
_pin_clipboard_image(s) ==
    IF s.crashed \/ s.app.clipboard = NonePix THEN s
    ELSE LET k == NextPinned(s)
             made == PinnedOverlay_init(s, k, s.app.clipboard, <<>>, -1)
         IN  IF made.crashed THEN made
             ELSE [made EXCEPT !.app.pinned_windows = Append(@, k)]

---------------------------------------------------------------------------
(* The events                                                              *)

\* an event: its name, the widget it is delivered to, the pointer position,
\* the key or button, and the modifiers
Event(name, w, pos, key, ctrl, shift) ==
    [name |-> name, w |-> w, pos |-> pos, key |-> key, ctrl |-> ctrl, shift |-> shift]

Init ==
    /\ ov = [w \in Widgets |-> NewOverlay(w = Editor)]
    /\ bar = NewBar
    /\ app = NewApp
    /\ crashed = FALSE
    /\ grab = NoWidget
    /\ pre = [ov |-> ov, bar |-> bar, app |-> app, crashed |-> crashed]
    /\ event = Event("start", NoWidget, None, "", FALSE, FALSE)

\* the state after a handler; a widget that is closed, and a program that
\* has ended, hold no mouse button
After(s, holder, e) ==
    /\ Becomes(s)
    /\ grab' = IF holder # NoWidget /\ ~s.crashed /\ s.ov[holder].visible
               THEN holder ELSE NoWidget
    /\ pre' = St
    /\ event' = e

\* what the dialogs and sinks answer when nothing fails
EnvOk == [path_chosen |-> TRUE, save_ok |-> TRUE, clipboard_ok |-> TRUE, color |-> "blue"]

\* a widget of the window of overlay w takes the keyboard focus.  If the
\* pending QLineEdit is the focus widget of that window it loses the focus,
\* for a reason that makes it emit editingFinished, to which
\* _add_text_annotation connected _finalize_text_input(font); the activation
\* of another window takes nothing from it.  emits: the signal is emitted.
FocusTaken(s, w, emits) ==
    IF s.crashed \/ s.bar.text_input = None \/ ~s.bar.text_input_focus
       \/ s.bar.text_input_parent # w
    THEN s
    ELSE LET s1 == [s EXCEPT !.bar.text_input_focus = FALSE] IN
         IF emits
         THEN _finalize_text_input([s1 EXCEPT !.bar.text_input_edited = FALSE], TRUE)
         ELSE s1

\* whether editingFinished is emitted at a loss of focus inside the window:
\* it is for an edited text; for an unedited one the Qt releases differ
FocusEmits(s) ==
    IF s.bar.text_input = None \/ ~s.bar.text_input_focus THEN {FALSE}
    ELSE IF s.bar.text_input_edited THEN {TRUE}
    ELSE BOOLEAN

\* the hotkey, the tray action or the tray double click
CaptureRequest(grab_ok) ==
    /\ ~crashed
    /\ After(_prepare_fullscreen_capture(St, grab_ok), grab,
             Event("capture", NoWidget, None, "", FALSE, FALSE))

\* a press gives the focus to the overlay (StrongFocus) before it is handled
MousePress(w, pos) ==
    /\ ~crashed /\ grab = NoWidget /\ ov[w].visible
    /\ \E emits \in FocusEmits(St) :
           After(mousePressEvent(FocusTaken(St, w, emits), w, pos), w,
                 Event("press", w, pos, "", FALSE, FALSE))

\* a move with the button held goes to the widget that got the press
MouseMove(w, pos, shift) ==
    /\ ~crashed /\ grab = w
    /\ After(mouseMoveEvent(St, w, pos, shift, TRUE), w,
             Event("move", w, pos, "", FALSE, shift))

\* a move with no button held (mouse tracking is on)
MouseHover(w, pos) ==
    /\ ~crashed /\ grab = NoWidget /\ ov[w].visible
    /\ After(mouseMoveEvent(St, w, pos, FALSE, FALSE), NoWidget,
             Event("hover", w, pos, "", FALSE, FALSE))

MouseRelease(w, pos) ==
    /\ ~crashed /\ grab = w
    /\ After(mouseReleaseEvent(St, w, pos), NoWidget,
             Event("release", w, pos, "", FALSE, FALSE))

KeyPress(w, key, ctrl, shift, env) ==
    /\ ~crashed /\ ov[w].visible
    /\ After(keyPressEvent(St, w, key, ctrl, shift, env), grab,
             Event("key", w, None, key, ctrl, shift))

EscShortcut(w) ==
    /\ ~crashed /\ ov[w].visible
    /\ After(_handle_esc_shortcut(St, w), grab, Event("esc", w, None, "", FALSE, FALSE))

SpaceShortcut(w) ==
    /\ ~crashed /\ IsPinned(w) /\ ov[w].visible
    /\ After(_handle_space_shortcut(St, w), grab,
             Event("space", w, None, "", FALSE, FALSE))

DoubleClick(w) ==
    /\ ~crashed /\ IsPinned(w) /\ ov[w].visible /\ grab = NoWidget
    /\ After(mouseDoubleClickEvent(St, w), grab,
             Event("doubleclick", w, None, "", FALSE, FALSE))

Wheel(w, delta_up) ==
    /\ ~crashed /\ ov[w].visible
    /\ After(wheelEvent(St, w, delta_up), grab,
             Event("wheel", w, None, IF delta_up THEN "up" ELSE "down", FALSE, FALSE))

\* the window the action bar is in: the editor's while it is linked to the
\* editor (setParent(linked)), its own otherwise (setParent(None))
BarWindow(s) == IF s.bar.linked_widget = Editor THEN Editor ELSE NoWidget

\* what the clicked signal of a button of the action bar is connected to
ButtonClicked(s, btn, env) ==
    CASE btn \in ModeSet -> _tool_button_handler(s, btn)
      [] btn = "undo" -> undo_action(s, s.bar.linked_widget)
      [] btn = "redo" -> redo_action(s, s.bar.linked_widget)
      [] btn = "copy" -> _copy_to_clipboard(s, env.clipboard_ok)
      [] btn = "save" -> _save_to_file(s, env.path_chosen, env.save_ok)
      [] btn = "pin" -> pin_to_screen(s, s.bar.linked_widget)
      [] btn = "close" -> closeEvent(s, s.bar.linked_widget)
      [] btn = "color" -> [s EXCEPT !.bar.current_pen_color = env.color]

\* a click on a button of the action bar: the button takes the focus at the
\* press and emits clicked at the release
BarButton(btn, env) ==
    /\ ~crashed /\ bar.visible /\ grab = NoWidget
    /\ btn = "pin" => bar.pin_enabled
    /\ \E emits \in FocusEmits(St) :
           After(ButtonClicked(FocusTaken(St, BarWindow(St), emits), btn, env),
                 grab, Event("button", NoWidget, None, btn, FALSE, FALSE))

\* FocusPreservingEventFilter.eventFilter: after the release on a button of
\* the action bar a timer activates the linked overlay and gives it the
\* focus; a QLineEdit that loses it may emit editingFinished (it
\* does not if the window is not active by then)
FocusRestored ==
    /\ ~crashed /\ event.name = "button" /\ bar.linked_widget # NoWidget
    /\ \E emits \in BOOLEAN :
           After(FocusTaken(St, bar.linked_widget, emits),
                 grab, Event("focus", bar.linked_widget, None, "", FALSE, FALSE))

\* the user types into the pending QLineEdit, which holds the focus
TypeText(text) ==
    /\ ~crashed /\ bar.text_input # None /\ bar.text_input_focus
    /\ After([St EXCEPT !.bar.text_input = <<text>>, !.bar.text_input_edited = TRUE],
             grab, Event("type", NoWidget, None, text, FALSE, FALSE))

\* Return in the pending QLineEdit: returnPressed, then editingFinished
TextSubmit ==
    /\ ~crashed /\ bar.text_input # None /\ bar.text_input_focus
    /\ After(_finalize_text_input(
                 _finalize_text_input([St EXCEPT !.bar.text_input_edited = FALSE], TRUE),
                 TRUE),
             grab, Event("submit", NoWidget, None, "", FALSE, FALSE))

\* the GLOBAL_HOTKEY_PIN hotkey
PinClipboard ==
    /\ ~crashed
    /\ After(_pin_clipboard_image(St), grab,
             Event("pinclipboard", NoWidget, None, "", FALSE, FALSE))

\* the environment: a screen is plugged in, unplugged, moved or rescaled, and
\* QApplication.screens() returns another set
ScreensChanged(screens) ==
    /\ ~crashed
    /\ After([St EXCEPT !.app.screens = screens], grab,
             Event("screens", NoWidget, None, "", FALSE, FALSE))

\* the bounded environment: it takes no more than MaxCaptures grabs, builds
\* no more than MaxPinned pinned overlays and starts a gesture that commits a
\* snapshot only while every history is shorter than MaxDepth
MayGrab == ov[Editor].visible \/ app.grabs < MaxCaptures
MayPin == NextPinned(St) # 0
MayCommit ==
    \A w \in Widgets :
        Min(ov[w].undo_redo_index + 1, Len(ov[w].annotation_states)) < MaxDepth

\* the user of a bounded run presses no key while a mouse button is held
NoButton == grab = NoWidget

\* what a press at pos on the open overlay w starts
Selects(w) == ov[w].visible /\ ~IsPinned(w) /\ content_rect(St, w) = None
OnRegion(w) == ov[w].visible /\ ~Selects(w)
StartsResize(w, pos) == OnRegion(w) /\ _get_resize_edge(St, w, pos) # ""
StartsDraw(w, pos) ==
    OnRegion(w) /\ _get_resize_edge(St, w, pos) = "" /\ HandlesMousePress(St)
StartsDrag(w, pos) ==
    OnRegion(w) /\ _get_resize_edge(St, w, pos) = "" /\ ~HandlesMousePress(St)

---------------------------------------------------------------------------
(* Spec: a session of captures, selections, pen strokes, one kind of       *)
(* resize, undo / redo and pins; the user drags nothing                    *)

\* pointer positions on the editor: a corner and the centre of the region
\* (1,0)-(19,18), a point to move to, and the points a selection ends at
EditorPress == {<<1, 0>>, <<10, 9>>}
EditorMove == {<<14, 9>>}
EditorRelease == {<<19, 18>>, <<3, 1>>}
\* on a pinned overlay, glow margin included: the centre and a point beside it
PinnedPress == {<<18, 18>>}
PinnedMove == {<<20, 18>>}

Next ==
    \/ MayGrab /\ NoButton /\ CaptureRequest(TRUE)
    \/ Selects(Editor) /\ MousePress(Editor, <<1, 0>>)
    \/ /\ MayCommit
       /\ \E pos \in EditorPress :
              (StartsResize(Editor, pos) \/ StartsDraw(Editor, pos)) /\ MousePress(Editor, pos)
    \/ \E pos \in EditorMove : MouseMove(Editor, pos, FALSE)
    \/ \E pos \in EditorRelease : MouseRelease(Editor, pos)
    \/ /\ MayCommit
       /\ \E w \in Widgets \ {Editor}, pos \in PinnedPress :
              StartsDraw(w, pos) /\ MousePress(w, pos)
    \/ \E w \in Widgets \ {Editor}, pos \in PinnedMove : MouseMove(w, pos, FALSE)
    \/ \E w \in Widgets \ {Editor}, pos \in PinnedMove : MouseRelease(w, pos)
    \/ NoButton /\ \E w \in Widgets, key \in {"Z", "Y"} : KeyPress(w, key, TRUE, FALSE, EnvOk)
    \/ NoButton /\ MayPin /\ \E w \in Widgets : KeyPress(w, "T", TRUE, FALSE, EnvOk)
    \/ NoButton /\ \E w \in Widgets : KeyPress(w, "1", FALSE, FALSE, EnvOk)
    \/ NoButton /\ \E w \in Widgets : EscShortcut(w)
    \/ NoButton /\ \E w \in Widgets : SpaceShortcut(w)

Spec == Init /\ [][Next]_vars

---------------------------------------------------------------------------
(* SpecHist: one capture, one selection, then pen strokes, undo / redo and *)
(* the pin, with no bound on the number of commits other than MAX_HISTORY  *)

\* the colours the user picks, in the order they are picked
NextColour(c) ==
    CASE c = "red" -> "blue"
      [] c = "blue" -> "green"
      [] c = "green" -> "red"
      [] OTHER -> "red"

\* the colour of the ink at pixel pt of pixmap p ("" where there is none)
ColourAt(p, pt) ==
    IF \E m \in p.ink : m[1] = pt[1] /\ m[2] = pt[2]
    THEN (CHOOSE m \in p.ink : m[1] = pt[1] /\ m[2] = pt[2])[3]
    ELSE ""

\* the colour that follows the one at pos on the linked overlay's canvas: the
\* user draws a stroke at pos in that colour only, so that successive
\* snapshots differ
FreshColour(pos) ==
    IF bar.linked_widget # NoWidget /\ ov[bar.linked_widget].base_pixmap # NonePix
    THEN NextColour(ColourAt(ov[bar.linked_widget].base_pixmap,
                             _window_to_pixmap_pos(St, pos)))
    ELSE "red"

\* the centre of the selected region, and of the overlay pinned from it
EditorCentre == <<10, 9>>
PinnedCentre == <<18, 18>>
LinkedCentre ==
    IF bar.linked_widget # NoWidget /\ IsPinned(bar.linked_widget)
    THEN PinnedCentre ELSE EditorCentre

\* the pointer has moved since the press that started the stroke
Stroked == bar.drawing /\ bar.last_point # bar.draw_start_point

\* the user annotates a pinned overlay only if it was pinned with the one
\* snapshot of a fresh selection (the snapshots an editor commits hold a
\* region, those a pinned overlay commits hold none)
PinnedFresh(w) ==
    Len(SelectSeq(ov[w].annotation_states, LAMBDA a : a.selection_rect # None)) <= 1

\* the overlays the user goes on working on: the editor, and a pinned overlay
\* that was pinned early
Worked(w) == IsPinned(w) => PinnedFresh(w)

\* the presses of the session: the one that starts the selection, and the
\* start of a stroke in a fresh colour at the centre of an overlay
HistPresses(w, pos) ==
    \/ w = Editor /\ Selects(Editor) /\ pos = <<1, 0>>
    \/ /\ w = Editor /\ pos = EditorCentre /\ StartsDraw(Editor, pos)
       /\ bar.current_pen_color = FreshColour(pos)
    \/ /\ w # Editor /\ pos = PinnedCentre /\ StartsDraw(w, pos) /\ PinnedFresh(w)
       /\ bar.current_pen_color = FreshColour(pos)

\* the keys of the session on overlay w: undo, redo, the pin, the pen and a
\* fresh colour
HistKeys(w) ==
    (IF Worked(w)
     THEN {[key |-> k, ctrl |-> TRUE, env |-> EnvOk] : k \in {"Z", "Y"}} ELSE {})
    \cup (IF w = Editor /\ MayPin
          THEN {[key |-> "T", ctrl |-> TRUE, env |-> EnvOk]} ELSE {})
    \cup (IF Worked(w) /\ ~bar.checked["pen"]
          THEN {[key |-> "1", ctrl |-> FALSE, env |-> EnvOk]} ELSE {})
    \cup (IF Worked(w) /\ bar.current_pen_color # FreshColour(LinkedCentre)
          THEN {[key |-> "5", ctrl |-> FALSE,
                 env |-> [EnvOk EXCEPT !.color = FreshColour(LinkedCentre)]]}
          ELSE {})

NextHist ==
    \/ app.grabs = 0 /\ CaptureRequest(TRUE)
    \/ \E w \in Widgets, pos \in {<<1, 0>>, EditorCentre, PinnedCentre} :
           HistPresses(w, pos) /\ MousePress(w, pos)
    \/ \E w \in Widgets :
           /\ w = Editor => bar.drawing
           /\ MouseMove(w, IF w = Editor THEN <<14, 9>> ELSE <<22, 18>>, FALSE)
    \/ \E w \in Widgets :
           /\ IF w = Editor THEN bar.drawing => Stroked ELSE Stroked
           /\ MouseRelease(w, IF w = Editor THEN <<19, 18>> ELSE <<22, 18>>)
    \/ NoButton /\ \E w \in Widgets : \E k \in HistKeys(w) :
           KeyPress(w, k.key, k.ctrl, FALSE, k.env)
    \/ NoButton /\ ~bar.visible /\ \E w \in Widgets : SpaceShortcut(w)

SpecHist == Init /\ [][NextHist]_vars

---------------------------------------------------------------------------
(* One capture worked on: strokes, resizes, undo and redo, the pin, and     *)
(* the same on the pinned overlay                                          *)

NextSnap ==
    \/ app.grabs = 0 /\ CaptureRequest(TRUE)
    \/ Selects(Editor) /\ MousePress(Editor, <<1, 0>>)
    \/ MayCommit /\ \E pos \in EditorPress :
           (StartsResize(Editor, pos) \/ StartsDraw(Editor, pos)) /\ MousePress(Editor, pos)
    \/ \E pos \in EditorMove : MouseMove(Editor, pos, FALSE)
    \/ \E pos \in EditorRelease : MouseRelease(Editor, pos)
    \/ MayCommit /\ \E w \in Widgets \ {Editor}, pos \in PinnedPress :
           StartsDraw(w, pos) /\ MousePress(w, pos)
    \/ \E w \in Widgets \ {Editor}, pos \in PinnedMove : MouseMove(w, pos, FALSE)
    \/ \E w \in Widgets \ {Editor}, pos \in PinnedMove : MouseRelease(w, pos)
    \/ NoButton /\ \E w \in Widgets, key \in {"Z", "Y"} : KeyPress(w, key, TRUE, FALSE, EnvOk)
    \/ NoButton /\ MayPin /\ KeyPress(Editor, "T", TRUE, FALSE, EnvOk)
    \/ NoButton /\ ~bar.checked["pen"] /\ \E w \in Widgets : KeyPress(w, "1", FALSE, FALSE, EnvOk)
    \/ NoButton /\ ~bar.visible /\ \E w \in Widgets : SpaceShortcut(w)

SpecSnap == Init /\ [][NextSnap]_vars

---------------------------------------------------------------------------
(* Selecting: every way a selection ends, with the pins and captures       *)
(* around it                                                               *)

SelectPress == {<<1, 0>>, <<10, 9>>, <<19, 18>>}
SelectRelease == {<<19, 18>>, <<1, 0>>, <<11, 10>>, <<12, 11>>, <<14, 5>>}

NextSelect ==
    \/ MayGrab /\ NoButton /\ CaptureRequest(TRUE)
    \/ \E pos \in SelectPress : Selects(Editor) /\ MousePress(Editor, pos)
    \/ ov[Editor].selecting /\ MouseMove(Editor, <<14, 9>>, FALSE)
    \/ \E pos \in SelectRelease : ov[Editor].selecting /\ MouseRelease(Editor, pos)
    \/ NoButton /\ MayPin /\ KeyPress(Editor, "T", TRUE, FALSE, EnvOk)
    \/ NoButton /\ EscShortcut(Editor)
    \/ NoButton /\ \E w \in Widgets \ {Editor} : SpaceShortcut(w)

SpecSelect == Init /\ [][NextSelect]_vars

---------------------------------------------------------------------------
(* Resizing the editor's region: a press on each of its handles, the       *)
(* pointer taken inside, across the opposite edge and off the canvas       *)

\* the corners and the middles of the edges of the region of w
HandlePoints(w) ==
    LET r == content_rect(St, w)
        mx == (Left(r) + Right(r)) \div 2
        my == (Top(r) + Bottom(r)) \div 2
    IN  IF r = None THEN {}
        ELSE {<<Left(r), Top(r)>>, <<Right(r), Top(r)>>,
              <<Left(r), Bottom(r)>>, <<Right(r), Bottom(r)>>,
              <<mx, Top(r)>>, <<mx, Bottom(r)>>, <<Left(r), my>>, <<Right(r), my>>}

ResizeTargets == {<<-5, -4>>, <<10, 9>>, <<CanvasW + 9, CanvasH + 10>>}

NextResize ==
    \/ app.grabs = 0 /\ CaptureRequest(TRUE)
    \/ Selects(Editor) /\ MousePress(Editor, <<1, 0>>)
    \/ ov[Editor].selecting /\ MouseRelease(Editor, <<19, 18>>)
    \/ ov[Editor].undo_redo_index = 0 /\ \E pos \in HandlePoints(Editor) :
           StartsResize(Editor, pos) /\ MousePress(Editor, pos)
    \/ \E pos \in ResizeTargets : ov[Editor].resizing /\ MouseMove(Editor, pos, FALSE)
    \/ ov[Editor].resizing /\ MouseRelease(Editor, <<10, 9>>)
    \/ NoButton /\ KeyPress(Editor, "Z", TRUE, FALSE, EnvOk)

SpecResize == Init /\ [][NextResize]_vars

---------------------------------------------------------------------------
(* Moving the editor's region: drags and arrow keys                        *)

\* the middle of the region of w
Centre(w) ==
    LET r == content_rect(St, w) IN
    <<(Left(r) + Right(r)) \div 2, (Top(r) + Bottom(r)) \div 2>>

MoveTargets == {<<-5, -4>>, <<12, 10>>, <<CanvasW + 9, CanvasH + 10>>}
Arrows == {"Left", "Right", "Up", "Down"}

NextMove ==
    \/ app.grabs = 0 /\ CaptureRequest(TRUE)
    \/ Selects(Editor) /\ MousePress(Editor, <<1, 0>>)
    \/ \E pos \in {<<19, 18>>, <<12, 11>>} :
           ov[Editor].selecting /\ MouseRelease(Editor, pos)
    \/ OnRegion(Editor) /\ StartsDrag(Editor, Centre(Editor))
           /\ MousePress(Editor, Centre(Editor))
    \/ \E pos \in MoveTargets : ov[Editor].dragging /\ MouseMove(Editor, pos, FALSE)
    \/ ov[Editor].dragging /\ MouseRelease(Editor, <<12, 10>>)
    \/ NoButton /\ OnRegion(Editor) /\ \E key \in Arrows, shift \in BOOLEAN :
           KeyPress(Editor, key, FALSE, shift, EnvOk)

SpecMove == Init /\ [][NextMove]_vars

---------------------------------------------------------------------------
(* Drawing on a region that moves between the commits                      *)

RoundPoints == {<<10, 9>>, <<20, 9>>}

NextRound ==
    \/ app.grabs = 0 /\ CaptureRequest(TRUE)
    \/ Selects(Editor) /\ MousePress(Editor, <<1, 0>>)
    \/ ov[Editor].selecting /\ MouseRelease(Editor, <<19, 18>>)
    \/ NoButton /\ OnRegion(Editor) /\ \E key \in {"Left", "Right"} :
           KeyPress(Editor, key, FALSE, TRUE, EnvOk)
    \/ NoButton /\ ~bar.checked["pen"] /\ KeyPress(Editor, "1", FALSE, FALSE, EnvOk)
    \/ MayCommit /\ \E pos \in RoundPoints :
           StartsDraw(Editor, pos) /\ MousePress(Editor, pos)
    \/ bar.drawing /\ ~Stroked /\ MouseMove(Editor, PtAdd(event.pos, <<2, 0>>), FALSE)
    \/ Stroked /\ MouseRelease(Editor, event.pos)
    \/ NoButton /\ \E key \in {"Z", "Y"} : KeyPress(Editor, key, TRUE, FALSE, EnvOk)

SpecRound == Init /\ [][NextRound]_vars

---------------------------------------------------------------------------
(* The gallery: captures that are selected, annotated, moved, resized,     *)
(* closed and navigated                                                    *)

\* the bottom right handle of the region of w
CornerHandle(w) ==
    LET r == content_rect(St, w) IN
    IF r = None THEN <<0, 0>> ELSE <<Right(r), Bottom(r)>>

\* the selection is as it was made: not yet annotated, moved or resized
Untouched ==
    /\ ov[Editor].start_pos = <<1, 0>> /\ ov[Editor].end_pos = <<19, 18>>
    /\ ov[Editor].base_pixmap # NonePix /\ ov[Editor].base_pixmap.ink = {}

\* the points the user presses: where the selection starts, the middle of the
\* region, and the bottom right handle
GalleryPoints == {<<1, 0>>, <<10, 9>>, <<19, 18>>}

PressesAt(pos) ==
    \/ Selects(Editor) /\ pos = <<1, 0>>
    \/ /\ Untouched /\ pos = <<10, 9>>
       /\ (StartsDraw(Editor, pos) \/ StartsDrag(Editor, pos))
    \/ Untouched /\ pos = CornerHandle(Editor) /\ StartsResize(Editor, pos)

\* where the pointer goes while the button is down, and where it is released
MovesTo ==
    IF bar.drawing THEN <<12, 9>>
    ELSE IF ov[Editor].resizing THEN <<16, 15>> ELSE <<12, 10>>

ReleasesAt == IF ov[Editor].selecting THEN <<19, 18>> ELSE MovesTo

\* the keys the user presses: gallery navigation, the pen, a large step right
GalleryKeys ==
    {[key |-> "Comma", shift |-> FALSE], [key |-> "Period", shift |-> FALSE]}
    \cup (IF OnRegion(Editor) /\ Untouched
          THEN {[key |-> "1", shift |-> FALSE], [key |-> "Right", shift |-> TRUE]}
          ELSE {})

NextGallery ==
    \/ MayGrab /\ NoButton /\ CaptureRequest(TRUE)
    \/ \E pos \in GalleryPoints : PressesAt(pos) /\ MousePress(Editor, pos)
    \/ /\ (bar.drawing /\ ~Stroked) \/ ov[Editor].resizing \/ ov[Editor].dragging
       /\ MouseMove(Editor, MovesTo, FALSE)
    \/ /\ ov[Editor].selecting \/ Stroked \/ ov[Editor].resizing \/ ov[Editor].dragging
       /\ MouseRelease(Editor, ReleasesAt)
    \/ NoButton /\ \E k \in GalleryKeys : KeyPress(Editor, k.key, FALSE, k.shift, EnvOk)
    \/ NoButton /\ EscShortcut(Editor)

SpecGallery == Init /\ [][NextGallery]_vars

---------------------------------------------------------------------------
(* Filling the gallery: capture after capture, each selected, shown in the *)
(* gallery and closed, past MAX_HISTORY entries                            *)

NextFill ==
    \/ /\ NoButton /\ ~ov[Editor].visible
       /\ app.grabs < MAX_HISTORY + MaxCaptures
       /\ CaptureRequest(TRUE)
    \/ Selects(Editor) /\ MousePress(Editor, <<1, 0>>)
    \/ ov[Editor].selecting /\ MouseRelease(Editor, <<19, 18>>)
    \/ NoButton /\ OnRegion(Editor) /\ KeyPress(Editor, "Comma", FALSE, FALSE, EnvOk)
    \/ NoButton /\ OnRegion(Editor) /\ EscShortcut(Editor)

SpecFill == Init /\ [][NextFill]_vars

---------------------------------------------------------------------------
(* Annotating with the four tools: the tools are switched by button and by *)
(* key, strokes and shapes are drawn, text entries are opened, typed into, *)
(* confirmed and cancelled, on the editor and on a pinned overlay          *)

\* the region (10,0)-(28,18), whose middle lies on no resize handle and which
\* leaves the window's corner (0,0) off every handle
TextRegion == <<<<10, 0>>, <<28, 18>>>>

\* where the user clicks on overlay w: the middle of the region and, on the
\* editor, the corner of the window
ToolPoints(w) == IF IsPinned(w) THEN {PinnedCentre} ELSE {<<19, 9>>, <<0, 0>>}

\* the keys pressed in the window of overlay w go to the pending text entry
Typing(w) ==
    bar.text_input # None /\ bar.text_input_focus /\ bar.text_input_parent = w

NextText ==
    \/ MayGrab /\ NoButton /\ CaptureRequest(TRUE)
    \/ Selects(Editor) /\ MousePress(Editor, TextRegion[1])
    \/ ov[Editor].selecting /\ MouseRelease(Editor, TextRegion[2])
    \/ NoButton /\ \E m \in ModeSet : BarButton(m, EnvOk)
    \/ Typing(bar.linked_widget) /\ FocusRestored
    \/ NoButton /\ \E w \in Widgets, key \in {"1", "2", "3", "4"} :
           ~Typing(w) /\ OnRegion(w) /\ KeyPress(w, key, FALSE, FALSE, EnvOk)
    \/ MayCommit /\ \E w \in Widgets : \E pos \in ToolPoints(w) :
           StartsDraw(w, pos) /\ MousePress(w, pos)
    \/ bar.drawing /\ event.name = "press" /\ \E w \in Widgets :
           MouseMove(w, PtAdd(event.pos, <<2, 0>>), FALSE)
    \/ \E w \in Widgets :
           /\ ~ov[w].selecting /\ ~ov[w].resizing /\ ~ov[w].dragging
           /\ MouseRelease(w, event.pos)
    \/ NoButton /\ \E text \in {"a", ""} : bar.text_input # <<text>> /\ TypeText(text)
    \/ NoButton /\ TextSubmit
    \/ NoButton /\ \E w \in Widgets : EscShortcut(w)
    \/ NoButton /\ ~Typing(Editor) /\ MayPin /\ KeyPress(Editor, "T", TRUE, FALSE, EnvOk)
    \/ NoButton /\ \E w \in Widgets \ {Editor} : ~Typing(w) /\ SpaceShortcut(w)

SpecText == Init /\ [][NextText]_vars

---------------------------------------------------------------------------
(* Switching the tools: by the buttons of the action bar and by the keys,  *)
(* on the editor and on the overlay pinned from it                         *)

NextTools ==
    \/ app.grabs = 0 /\ CaptureRequest(TRUE)
    \/ Selects(Editor) /\ MousePress(Editor, <<1, 0>>)
    \/ ov[Editor].selecting /\ MouseRelease(Editor, <<19, 18>>)
    \/ \E m \in ModeSet : BarButton(m, EnvOk)
    \/ NoButton /\ \E w \in Widgets, key \in {"1", "2", "3", "4"} :
           KeyPress(w, key, FALSE, FALSE, EnvOk)
    \/ NoButton /\ \E w \in Widgets : EscShortcut(w)
    \/ NoButton /\ MayPin /\ KeyPress(Editor, "T", TRUE, FALSE, EnvOk)
    \/ NoButton /\ \E w \in Widgets \ {Editor} : SpaceShortcut(w)

SpecTools == Init /\ [][NextTools]_vars

---------------------------------------------------------------------------
(* Exports: captures, selections kept or too small, a pen stroke, and the  *)
(* pin, copy and save requests by key and by button, with the dialogs and  *)
(* sinks answering or failing                                              *)

\* what the save dialog, QPixmap.save and the clipboard may answer
ExportEnvs ==
    {EnvOk, [EnvOk EXCEPT !.path_chosen = FALSE], [EnvOk EXCEPT !.save_ok = FALSE],
     [EnvOk EXCEPT !.clipboard_ok = FALSE]}

\* the answers that decide a request: a save asks the dialog and the file,
\* a copy the clipboard, a pin nothing
EnvsOf(request) ==
    IF request \in {"S", "save"} THEN {e \in ExportEnvs : e.clipboard_ok}
    ELSE IF request \in {"C", "copy"} THEN {e \in ExportEnvs : e.path_chosen /\ e.save_ok}
    ELSE {EnvOk}

\* the presses on the editor: the start of a selection, and of a stroke
ExportPresses(pos) ==
    \/ Selects(Editor) /\ pos = <<1, 0>>
    \/ pos = EditorCentre /\ StartsDraw(Editor, pos) /\ MayCommit

\* where the button is released: a selection ends large or too small
ExportReleases ==
    IF ov[Editor].selecting THEN {<<19, 18>>, <<2, 1>>} ELSE {<<14, 9>>}

\* the keys pressed on overlay w: save, copy, pin, undo and the pen
ExportKeys(w) ==
    {[key |-> k, ctrl |-> TRUE] : k \in {"S", "C", "Z"}}
    \cup (IF MayPin THEN {[key |-> "T", ctrl |-> TRUE]} ELSE {})
    \cup (IF ~bar.checked["pen"] THEN {[key |-> "1", ctrl |-> FALSE]} ELSE {})

NextExport ==
    \/ MayGrab /\ NoButton /\ CaptureRequest(TRUE)
    \/ \E pos \in {<<1, 0>>, EditorCentre} : ExportPresses(pos) /\ MousePress(Editor, pos)
    \/ bar.drawing /\ ~Stroked /\ MouseMove(Editor, <<14, 9>>, FALSE)
    \/ /\ bar.drawing => Stroked
       /\ \E pos \in ExportReleases : MouseRelease(Editor, pos)
    \/ \E w \in Widgets : \E k \in ExportKeys(w) : \E env \in EnvsOf(k.key) :
           KeyPress(w, k.key, k.ctrl, FALSE, env)
    \/ /\ NoButton
       /\ \E btn \in {"copy", "save", "pin"} : \E env \in EnvsOf(btn) :
              (btn = "pin" => MayPin) /\ BarButton(btn, env)
    \/ \E w \in Widgets : DoubleClick(w)
    \/ NoButton /\ \E w \in Widgets : EscShortcut(w)
    \/ NoButton /\ \E w \in Widgets \ {Editor} : SpaceShortcut(w)

SpecExport == Init /\ [][NextExport]_vars

---------------------------------------------------------------------------
(* The screens: any set of them, side by side, stacked or apart, at ratios *)
(* 1.0, 1.25, 1.5 and 2.0, and captures of them                            *)

ScreenChoices ==
    Desktop \cup
    {[left |-> 0, top |-> 0, width |-> 4, height |-> 3, dpr4 |-> 4],
     [left |-> 4, top |-> 0, width |-> 5, height |-> 3, dpr4 |-> 8],
     [left |-> -3, top |-> 1, width |-> 3, height |-> 2, dpr4 |-> 5],
     [left |-> 0, top |-> 3, width |-> 4, height |-> 2, dpr4 |-> 6]}

NextScreens ==
    \/ /\ NoButton /\ ~ov[Editor].visible /\ event.name # "screens"
       /\ \E screens \in SUBSET ScreenChoices :
              screens # app.screens /\ ScreensChanged(screens)
    \/ MayGrab /\ CaptureRequest(TRUE)
    \/ EscShortcut(Editor)

SpecScreens == Init /\ [][NextScreens]_vars

---------------------------------------------------------------------------
(* Resizing a pinned overlay: a square or a wide region is pinned, then a   *)
(* press on each handle of the overlay, the pointer taken inside, across    *)
(* the opposite edge and away, the Shift key held or not                    *)

\* where the pointer is taken during a resize of a pinned overlay, in the
\* coordinates of its window (glow margin included)
PinTargets == {<<-5, -4>>, <<12, 14>>, <<40, 41>>}

PinResizePresses(w, pos) ==
    \/ w = Editor /\ Selects(Editor) /\ pos = <<1, 0>>
    \/ w = Editor /\ ov[Editor].undo_redo_index = 0 /\ StartsResize(Editor, pos)
    \/ IsPinned(w) /\ MayCommit /\ pos \in HandlePoints(w) /\ StartsResize(w, pos)

PinResizePoints(w) ==
    IF ~ov[w].visible THEN {}
    ELSE IF Selects(w) THEN {<<1, 0>>}
    ELSE HandlePoints(w)

PinResizeReleases(w) ==
    IF w = Editor /\ ov[Editor].selecting THEN {<<19, 18>>, <<19, 3>>}
    ELSE IF ov[w].resizing THEN {<<12, 14>>}
    ELSE {}

NextPinResize ==
    \/ app.grabs = 0 /\ CaptureRequest(TRUE)
    \/ \E w \in Widgets : \E pos \in PinResizePoints(w) :
           PinResizePresses(w, pos) /\ MousePress(w, pos)
    \/ \E w \in Widgets, pos \in PinTargets, shift \in BOOLEAN :
           ov[w].resizing /\ event.name = "press" /\ MouseMove(w, pos, shift)
    \/ \E w \in Widgets : \E pos \in PinResizeReleases(w) : MouseRelease(w, pos)
    \/ NoButton /\ MayPin /\ KeyPress(Editor, "T", TRUE, FALSE, EnvOk)

SpecPinResize == Init /\ [][NextPinResize]_vars

---------------------------------------------------------------------------
(* Presses on and around a frozen region: every point of the window of the *)
(* editor and of a pinned overlay, over regions large and small, with the  *)
(* pen on and off, each followed by one pointer move and the release       *)

HitStarts == {<<1, 0>>, <<10, 9>>}
HitEnds == {<<19, 18>>, <<14, 12>>}
HitTargets == {<<3, 2>>, <<25, 17>>}

\* the region on screen is as it was selected or pinned: no gesture yet
RegionFresh ==
    \/ event.name = "key"
    \/ event.name = "release" /\ pre.ov[Editor].selecting

\* the points of the window of overlay w
WindowPoints(w) ==
    {<<x, y>> : x \in 0..(WidgetWidth(St, w) - 1), y \in 0..(WidgetHeight(St, w) - 1)}

HitPoints(w) ==
    IF ~ov[w].visible THEN {}
    ELSE IF Selects(w) THEN HitStarts
    ELSE IF RegionFresh THEN WindowPoints(w)
    ELSE {}

HitReleases(w) ==
    IF grab # w THEN {}
    ELSE IF w = Editor /\ ov[Editor].selecting THEN HitEnds
    ELSE {<<12, 10>>}

\* the pen, once, and the pin
HitKeys ==
    (IF OnRegion(Editor) /\ event.name = "release" /\ pre.ov[Editor].selecting
     THEN {[key |-> "1", ctrl |-> FALSE]} ELSE {})
    \cup (IF OnRegion(Editor) /\ MayPin THEN {[key |-> "T", ctrl |-> TRUE]} ELSE {})

NextHit ==
    \/ app.grabs = 0 /\ CaptureRequest(TRUE)
    \/ \E w \in Widgets : \E pos \in HitPoints(w) : MousePress(w, pos)
    \/ \E w \in Widgets, pos \in HitTargets :
           /\ ov[w].dragging \/ ov[w].resizing
           /\ event.name = "press"
           /\ MouseMove(w, pos, FALSE)
    \/ \E w \in Widgets : \E pos \in HitReleases(w) : MouseRelease(w, pos)
    \/ /\ NoButton /\ RegionFresh
       /\ \E k \in HitKeys : KeyPress(Editor, k.key, k.ctrl, FALSE, EnvOk)

SpecHit == Init /\ [][NextHit]_vars

---------------------------------------------------------------------------
(* A pen stroke that leaves the region and comes back: the pointer moves   *)
(* between points inside the region and points beyond its edges            *)

PenTargets == {<<5, 5>>, <<15, 12>>, <<12, 3>>, <<25, 9>>, <<10, 19>>, <<0, 9>>}

PenPresses(pos) ==
    \/ Selects(Editor) /\ pos = <<1, 0>>
    \/ pos = EditorCentre /\ StartsDraw(Editor, pos) /\ MayCommit

NextPen ==
    \/ app.grabs = 0 /\ CaptureRequest(TRUE)
    \/ \E pos \in {<<1, 0>>, EditorCentre} : PenPresses(pos) /\ MousePress(Editor, pos)
    \/ \E pos \in PenTargets :
           bar.drawing /\ pos # event.pos /\ MouseMove(Editor, pos, FALSE)
    \/ \E pos \in (IF ov[Editor].selecting THEN {<<19, 18>>, <<16, 14>>} ELSE {<<14, 9>>}) :
           MouseRelease(Editor, pos)
    \/ /\ NoButton /\ OnRegion(Editor) /\ ~bar.checked["pen"]
       /\ KeyPress(Editor, "1", FALSE, FALSE, EnvOk)

SpecPen == Init /\ [][NextPen]_vars

---------------------------------------------------------------------------
(* Rectangles and lines: a shape started inside the region or beyond its   *)
(* handles, dragged to points inside and outside, and released, on the     *)
(* editor and on the overlay pinned from it                                *)

ShapePoints(w) ==
    IF IsPinned(w) THEN {PinnedCentre, <<0, 18>>} ELSE {EditorCentre, <<29, 9>>}
ShapeTargets(w) ==
    IF IsPinned(w) THEN {<<22, 21>>, <<36, 30>>} ELSE {<<14, 12>>, <<25, 19>>}

ShapePresses(w, pos) ==
    \/ Selects(w) /\ pos = <<1, 0>>
    \/ /\ pos \in ShapePoints(w) /\ bar.linked_widget = w /\ MayCommit
       /\ StartsDraw(w, pos) /\ _get_active_draw_mode(St) \in {"rectangle", "line"}

ShapeReleases(w) ==
    IF grab # w THEN {}
    ELSE IF w = Editor /\ ov[Editor].selecting THEN {<<19, 18>>}
    ELSE ShapeTargets(w)

\* the keys: the rectangle and the line on the overlay the bar is shown for,
\* and the pin
ShapeKeys(w) ==
    (IF bar.linked_widget = w THEN {[key |-> "2", ctrl |-> FALSE], [key |-> "3", ctrl |-> FALSE]}
     ELSE {})
    \cup (IF w = Editor /\ OnRegion(Editor) /\ MayPin THEN {[key |-> "T", ctrl |-> TRUE]} ELSE {})

NextShape ==
    \/ app.grabs = 0 /\ CaptureRequest(TRUE)
    \/ \E w \in Widgets : \E pos \in ShapePoints(w) \cup {<<1, 0>>} :
           ShapePresses(w, pos) /\ MousePress(w, pos)
    \/ \E w \in Widgets : \E pos \in ShapeTargets(w) :
           bar.drawing /\ pos # event.pos /\ MouseMove(w, pos, FALSE)
    \/ \E w \in Widgets : \E pos \in ShapeReleases(w) : MouseRelease(w, pos)
    \/ /\ NoButton
       /\ \E w \in Widgets : \E k \in ShapeKeys(w) : KeyPress(w, k.key, k.ctrl, FALSE, EnvOk)
    \/ NoButton /\ \E w \in Widgets \ {Editor} : bar.linked_widget # w /\ SpaceShortcut(w)

SpecShape == Init /\ [][NextShape]_vars

---------------------------------------------------------------------------
(* The scroll wheel: over the editor and over the overlay pinned from it,  *)
(* with and without a text entry pending                                   *)

WheelPresses(w, pos) ==
    \/ w = Editor /\ Selects(Editor) /\ pos = <<1, 0>>
    \/ /\ pos = LinkedCentre /\ bar.linked_widget = w /\ bar.text_input = None
       /\ StartsDraw(w, pos) /\ _get_active_draw_mode(St) = "text"

WheelKeys(w) ==
    (IF bar.linked_widget = w /\ ~is_any_draw_tool_active(St)
     THEN {[key |-> "4", ctrl |-> FALSE]} ELSE {})
    \cup (IF w = Editor /\ OnRegion(Editor) /\ MayPin THEN {[key |-> "T", ctrl |-> TRUE]} ELSE {})

NextWheel ==
    \/ app.grabs = 0 /\ CaptureRequest(TRUE)
    \/ \E w \in Widgets : \E pos \in {<<1, 0>>, LinkedCentre} :
           WheelPresses(w, pos) /\ MousePress(w, pos)
    \/ \E w \in Widgets :
           /\ grab = w
           /\ MouseRelease(w, IF ov[w].selecting THEN <<19, 18>> ELSE event.pos)
    \/ NoButton /\ \E w \in Widgets, delta_up \in BOOLEAN : Wheel(w, delta_up)
    \/ /\ NoButton
       /\ \E w \in Widgets : \E k \in WheelKeys(w) :
              ~Typing(w) /\ KeyPress(w, k.key, k.ctrl, FALSE, EnvOk)
    \/ NoButton /\ \E w \in Widgets : bar.text_input # None /\ EscShortcut(w)
    \/ NoButton /\ \E w \in Widgets \ {Editor} :
           ~bar.visible /\ ~Typing(w) /\ SpaceShortcut(w)

SpecWheel == Init /\ [][NextWheel]_vars

---------------------------------------------------------------------------
(* Arrow keys on the editor: with the region at rest, and once while a    *)
(* pen stroke is under way with the button held                            *)

ArrowPresses(pos) ==
    \/ Selects(Editor) /\ pos = <<1, 0>>
    \/ /\ OnRegion(Editor) /\ pos = Centre(Editor)
       /\ StartsDraw(Editor, pos) /\ MayCommit

\* the arrows, plain and with Shift, and the pen
ArrowKeys ==
    {[key |-> k, shift |-> sh] : k \in Arrows, sh \in BOOLEAN}
    \cup (IF NoButton /\ ~bar.checked["pen"] THEN {[key |-> "1", shift |-> FALSE]} ELSE {})

NextArrow ==
    \/ app.grabs = 0 /\ CaptureRequest(TRUE)
    \/ \E pos \in {<<1, 0>>} \cup (IF OnRegion(Editor) THEN {Centre(Editor)} ELSE {}) :
           ArrowPresses(pos) /\ MousePress(Editor, pos)
    \/ bar.drawing /\ event.name # "move" /\ MouseMove(Editor, <<9, 9>>, FALSE)
    \/ /\ grab = Editor
       /\ \E pos \in (IF ov[Editor].selecting THEN {<<12, 11>>, <<19, 18>>} ELSE {<<9, 9>>}) :
              MouseRelease(Editor, pos)
    \/ /\ OnRegion(Editor) /\ ~ov[Editor].selecting
       /\ IF bar.drawing THEN event.name = "press" ELSE MayCommit
       /\ \E k \in ArrowKeys : KeyPress(Editor, k.key, FALSE, k.shift, EnvOk)

SpecArrow == Init /\ [][NextArrow]_vars

---------------------------------------------------------------------------
(* Overlays closed with a tool active: the editor is closed by a copy, by  *)
(* the pin or by Escape, a pinned overlay by a double click, and the       *)
(* pointer then works on the overlay that is still open                    *)

ClosedPresses(w, pos) ==
    \/ w = Editor /\ Selects(Editor) /\ pos = <<1, 0>>
    \/ w = Editor /\ pos = EditorCentre /\ StartsDraw(Editor, pos) /\ MayCommit
    \/ IsPinned(w) /\ pos = PinnedCentre /\ MayCommit

ClosedReleases(w) ==
    IF grab # w THEN {}
    ELSE IF w = Editor /\ ov[Editor].selecting THEN {<<19, 18>>}
    ELSE IF IsPinned(w) THEN {<<20, 18>>} ELSE {<<14, 9>>}

\* the keys pressed on the editor while the action bar is shown for it
ClosedKeys ==
    IF bar.linked_widget # Editor \/ ~bar.visible THEN {}
    ELSE {[key |-> "C", ctrl |-> TRUE]}
         \cup (IF MayPin THEN {[key |-> "T", ctrl |-> TRUE]} ELSE {})
         \cup (IF ~bar.checked["pen"] THEN {[key |-> "1", ctrl |-> FALSE]} ELSE {})

NextClosed ==
    \/ MayGrab /\ NoButton /\ ~ov[Editor].visible /\ CaptureRequest(TRUE)
    \/ \E w \in Widgets : \E pos \in {<<1, 0>>, EditorCentre, PinnedCentre} :
           ClosedPresses(w, pos) /\ MousePress(w, pos)
    \/ \E w \in Widgets :
           /\ ~ov[w].selecting /\ event.name = "press"
           /\ MouseMove(w, IF IsPinned(w) THEN <<20, 18>> ELSE <<14, 9>>, FALSE)
    \/ \E w \in Widgets : \E pos \in ClosedReleases(w) : MouseRelease(w, pos)
    \/ NoButton /\ \E k \in ClosedKeys : KeyPress(Editor, k.key, k.ctrl, FALSE, EnvOk)
    \/ NoButton /\ \E w \in Widgets \ {Editor} : DoubleClick(w)
    \/ NoButton /\ \E w \in Widgets : EscShortcut(w)
    \/ NoButton /\ \E w \in Widgets \ {Editor} : SpaceShortcut(w)

SpecClosed == Init /\ [][NextClosed]_vars

---------------------------------------------------------------------------
(* Annotating and then resizing a pinned overlay: a pen stroke in the      *)
(* editor or on the pinned overlay, undo and redo, and a resize from a     *)
(* corner or an edge                                                       *)

\* the history of w is short enough for the user to go on
FewSnapshots(w) == Len(ov[w].annotation_states) <= 2

PinInkPoints(w) ==
    IF ~ov[w].visible THEN {}
    ELSE IF Selects(w) THEN {<<1, 0>>}
    ELSE {LinkedCentre}
         \cup (IF IsPinned(w)
               THEN {BottomRight(content_rect(St, w)),
                     <<Left(content_rect(St, w)), Centre(w)[2]>>}
               ELSE {})

PinInkPresses(w, pos) ==
    \/ Selects(w)
    \/ /\ OnRegion(w) /\ FewSnapshots(w) /\ bar.linked_widget = w
       /\ pos = LinkedCentre /\ StartsDraw(w, pos)
    \/ IsPinned(w) /\ FewSnapshots(w) /\ pos # LinkedCentre /\ StartsResize(w, pos)

PinInkMoves(w) ==
    IF grab # w \/ event.name # "press" THEN {}
    ELSE IF bar.drawing THEN {PtAdd(event.pos, <<4, 0>>)}
    ELSE IF ov[w].resizing THEN {<<12, 14>>, <<40, 41>>}
    ELSE {}

PinInkKeys(w) ==
    IF bar.linked_widget # w \/ ~bar.visible THEN {}
    ELSE {[key |-> "Z", ctrl |-> TRUE], [key |-> "Y", ctrl |-> TRUE]}
         \cup (IF ~bar.checked["pen"] THEN {[key |-> "1", ctrl |-> FALSE]} ELSE {})
         \cup (IF w = Editor /\ MayPin THEN {[key |-> "T", ctrl |-> TRUE]} ELSE {})

NextPinInk ==
    \/ app.grabs = 0 /\ CaptureRequest(TRUE)
    \/ \E w \in Widgets : \E pos \in PinInkPoints(w) :
           PinInkPresses(w, pos) /\ MousePress(w, pos)
    \/ \E w \in Widgets : \E pos \in PinInkMoves(w) : MouseMove(w, pos, FALSE)
    \/ \E w \in Widgets :
           /\ grab = w
           /\ MouseRelease(w, IF ov[w].selecting THEN <<19, 18>> ELSE event.pos)
    \/ /\ NoButton
       /\ \E w \in Widgets : \E k \in PinInkKeys(w) : KeyPress(w, k.key, k.ctrl, FALSE, EnvOk)
    \/ NoButton /\ \E w \in Widgets \ {Editor} : ~bar.visible /\ SpaceShortcut(w)

SpecPinInk == Init /\ [][NextPinInk]_vars

---------------------------------------------------------------------------
(* Editing and then pinning: a pen stroke, a drag or an arrow move of the  *)
(* region, undo and redo, and the pin                                      *)

PinMovePoints ==
    IF Selects(Editor) THEN {<<1, 0>>}
    ELSE IF OnRegion(Editor) THEN {Centre(Editor)}
    ELSE {}

PinMovePresses(pos) ==
    \/ Selects(Editor)
    \/ /\ OnRegion(Editor) /\ FewSnapshots(Editor)
       /\ (StartsDraw(Editor, pos) \/ StartsDrag(Editor, pos))

PinMoveMoves ==
    IF grab # Editor \/ event.name # "press" THEN {}
    ELSE IF bar.drawing THEN {PtAdd(event.pos, <<4, 0>>)}
    ELSE IF ov[Editor].dragging THEN {<<14, 10>>}
    ELSE {}

PinMoveKeys ==
    IF ~OnRegion(Editor) \/ ~bar.visible THEN {}
    ELSE {[key |-> "Z", ctrl |-> TRUE], [key |-> "Y", ctrl |-> TRUE]}
         \cup (IF ~bar.checked["pen"] THEN {[key |-> "1", ctrl |-> FALSE]} ELSE {})
         \cup (IF MayPin THEN {[key |-> "T", ctrl |-> TRUE]} ELSE {})
         \cup (IF Left(content_rect(St, Editor)) <= 2
               THEN {[key |-> "Right", ctrl |-> FALSE]} ELSE {})

NextPinMove ==
    \/ app.grabs = 0 /\ CaptureRequest(TRUE)
    \/ \E pos \in PinMovePoints : PinMovePresses(pos) /\ MousePress(Editor, pos)
    \/ \E pos \in PinMoveMoves : MouseMove(Editor, pos, FALSE)
    \/ /\ grab = Editor
       /\ MouseRelease(Editor, IF ov[Editor].selecting THEN <<19, 18>> ELSE event.pos)
    \/ NoButton /\ \E k \in PinMoveKeys : KeyPress(Editor, k.key, k.ctrl, FALSE, EnvOk)

SpecPinMove == Init /\ [][NextPinMove]_vars

---------------------------------------------------------------------------
(* What the last event did, read from pre, event and the state             *)

History(s, w) == s.ov[w].annotation_states
Index(s, w) == s.ov[w].undo_redo_index

\* the overlay on which the last event committed an annotation snapshot on
\* top of its history (a finished stroke or shape, a finished resize), or
\* NoWidget
CommitTarget ==
    IF crashed \/ event.name # "release" THEN NoWidget
    ELSE IF ~IsPinned(event.w) /\ pre.ov[event.w].selecting THEN NoWidget
    ELSE IF pre.bar.drawing THEN pre.bar.linked_widget
    ELSE IF pre.ov[event.w].dragging THEN NoWidget
    ELSE IF pre.ov[event.w].resizing THEN event.w
    ELSE NoWidget

\* the snapshot a commit on w takes of state s
SnapshotOf(s, w) ==
    [screenshot |-> _get_content_for_export(s, w)[1],
     selection_rect |-> _get_content_for_export(s, w)[2]]

\* the overlay the last event asked to undo / redo on, or NoWidget
ShortcutTarget(key, btn) ==
    IF /\ pre.bar.visible
       /\ \/ event.name = "key" /\ event.ctrl /\ event.key = key
          \/ event.name = "button" /\ event.key = btn
    THEN pre.bar.linked_widget
    ELSE NoWidget
UndoTarget == ShortcutTarget("Z", "undo")
RedoTarget == ShortcutTarget("Y", "redo")

\* the canvas of w shows the snapshot at the 0-based position i of its history
Shows(s, w, i) ==
    LET a == History(s, w)[i + 1] IN
    IF IsPinned(w) THEN s.ov[w].base_pixmap = a.screenshot
    ELSE CopyRect(s.ov[w].base_pixmap, a.selection_rect) = a.screenshot

\* the last event pinned the editor's valid region
Pinned ==
    /\ ShortcutTarget("T", "pin") = Editor
    /\ pre.bar.pin_enabled
    /\ ExportValid(pre, Editor)

---------------------------------------------------------------------------
(* The claims                                                              *)

\* C1 (as stated): a history never holds more than MAX_HISTORY snapshots, and
\* a commit made when the history is full removes exactly the oldest
\* snapshot, keeps the others in order and leaves the index at the new one.
C1_AsStated ==
    \A w \in Widgets :
        /\ Len(History(St, w)) <= MAX_HISTORY
        /\ (CommitTarget = w /\ Len(History(pre, w)) = MAX_HISTORY) =>
               /\ History(St, w) = Append(Tail(History(pre, w)), SnapshotOf(St, w))
               /\ Index(St, w) = Len(History(St, w)) - 1

\* C1 (amended): a history never holds more than MAX_HISTORY snapshots, and a
\* commit made when the history is full with the index at its tail removes
\* exactly the oldest snapshot, keeps the others in order and leaves the
\* index at the new one.
C1_HistoryBound ==
    \A w \in Widgets :
        /\ Len(History(St, w)) <= MAX_HISTORY
        /\ (/\ CommitTarget = w
            /\ Len(History(pre, w)) = MAX_HISTORY
            /\ Index(pre, w) = MAX_HISTORY - 1) =>
               /\ History(St, w) = Append(Tail(History(pre, w)), SnapshotOf(St, w))
               /\ Index(St, w) = Len(History(St, w)) - 1

C1_Witness ==
    \E w \in Widgets :
        /\ CommitTarget = w
        /\ Len(History(pre, w)) = MAX_HISTORY
        /\ Index(pre, w) = MAX_HISTORY - 1
        /\ History(pre, w)[1] # History(pre, w)[2]

\* C2: a commit made while the index is not at the tail keeps the snapshots
\* up to the index, unchanged and in order, drops the ones after it and
\* appends the new one; after any commit the index is at the tail, so that a
\* redo changes nothing.
C2_CommitTruncates ==
    \A w \in Widgets :
        CommitTarget = w =>
            /\ Index(St, w) = Len(History(St, w)) - 1
            /\ redo_action(St, w) = St
            /\ Index(pre, w) < Len(History(pre, w)) - 1 =>
                   History(St, w) =
                       Append(SubSeq(History(pre, w), 1, Index(pre, w) + 1),
                              SnapshotOf(St, w))

C2_Witness ==
    \E w \in Widgets :
        /\ CommitTarget = w
        /\ Index(pre, w) >= 0
        /\ Index(pre, w) < Len(History(pre, w)) - 2

\* C3: undo at index 0 or on an empty history, and redo at the tail, raise no
\* error and change nothing; elsewhere undo moves the index down by one and
\* redo up by one, the history stays as it is and the canvas shows the
\* snapshot at the new index.
C3_UndoRedo ==
    /\ UndoTarget # NoWidget =>
           LET w == UndoTarget IN
           /\ ~crashed
           /\ IF Index(pre, w) <= 0 THEN St = pre
              ELSE /\ Index(St, w) = Index(pre, w) - 1
                   /\ History(St, w) = History(pre, w)
                   /\ Shows(St, w, Index(St, w))
    /\ RedoTarget # NoWidget =>
           LET w == RedoTarget IN
           /\ ~crashed
           /\ IF Index(pre, w) >= Len(History(pre, w)) - 1 THEN St = pre
              ELSE /\ Index(St, w) = Index(pre, w) + 1
                   /\ History(St, w) = History(pre, w)
                   /\ Shows(St, w, Index(St, w))

C3_Witness ==
    /\ UndoTarget # NoWidget
    /\ Index(pre, UndoTarget) = 0
    /\ Len(History(pre, UndoTarget)) > 1
    /\ event.w = UndoTarget

\* C5: pinning an editor with a valid region and n snapshots at index i makes
\* a pinned overlay that holds the same n snapshots in the same order at
\* index i, leaves the editor's history empty and closes the editor.
C5_PinTransfers ==
    Pinned =>
        LET k == NextPinned(pre) IN
        /\ ~crashed
        /\ ov[k].visible
        /\ History(St, k) = History(pre, Editor)
        /\ Index(St, k) = Index(pre, Editor)
        /\ Len(History(St, Editor)) = 0
        /\ ~ov[Editor].visible

C5_Witness ==
    /\ Pinned
    /\ Len(History(pre, Editor)) >= 3
    /\ Index(pre, Editor) = 1

\* the canvas of w
Canvas(s, w) == s.ov[w].base_pixmap

\* a stroke on the editor: press at p, move to q, release at q
StrokeFrom(s, p, q) ==
    mouseReleaseEvent(
        mouseMoveEvent(mousePressEvent(s, Editor, p), Editor, q, FALSE, TRUE), Editor, q)

\* C4: an undo right after a commit leaves the canvas as it was before the
\* committed annotation was drawn, and a redo right after an undo leaves it as
\* it was before the undo, also when the region was moved between two commits.
C4_RoundTrip ==
    /\ \A p \in RoundPoints :
           (NoButton /\ ~crashed /\ StartsDraw(Editor, p)) =>
               Canvas(undo_action(StrokeFrom(St, p, PtAdd(p, <<2, 0>>)), Editor), Editor)
                   = Canvas(St, Editor)
    /\ (NoButton /\ ~crashed /\ ov[Editor].visible /\ Index(St, Editor) > 0) =>
           Canvas(redo_action(undo_action(St, Editor), Editor), Editor)
               = Canvas(St, Editor)

\* C6: an event delivered to one overlay changes neither the history nor the
\* canvas of another overlay.
C6_Separate ==
    \A w \in Widgets :
        (event.w \in Widgets /\ event.w # w /\ pre.ov[w].visible) =>
            /\ History(St, w) = History(pre, w)
            /\ Canvas(St, w) = Canvas(pre, w)

\* the last event is one of those that store a snapshot
Stores ==
    \/ event.name \in {"release", "submit", "pinclipboard"}
    \/ event.name = "key" /\ event.key \in {"Comma", "Period"}

\* C7: a stored snapshot never changes: from one event to the next a history
\* stays as it is, is emptied, keeps a prefix and gets one new snapshot, loses
\* its oldest snapshot for a new one, or is handed over whole by a pin.
C7_SnapshotsImmutable ==
    \A w \in Widgets :
        LET h == History(pre, w)
            g == History(St, w)
        IN  \/ g = h
            \/ g = <<>>
            \/ /\ Stores
               /\ Len(g) >= 1
               /\ \/ \E k \in 0..Len(h) : SubSeq(g, 1, Len(g) - 1) = SubSeq(h, 1, k)
                  \/ Len(g) = MAX_HISTORY /\ SubSeq(g, 1, Len(g) - 1) = Tail(h)
            \/ Pinned /\ w = NextPinned(pre) /\ g = History(pre, Editor)

C7_Witness ==
    \E w \in Widgets \ {Editor} :
        /\ event.name = "move"
        /\ event.w = w
        /\ Canvas(St, w) # Canvas(pre, w)
        /\ Len(History(St, w)) >= 2
        /\ Index(St, w) = 0

\* the last event moved the pointer during a resize of the editor's region
ResizeMoved == event.name = "move" /\ event.w = Editor /\ pre.ov[Editor].resizing

\* C8: resizing the editor's region from any edge or corner, the pointer
\* anywhere, never takes its width or height below MIN_SIZE, and the moved
\* edge stays at least MIN_SIZE away from the opposite one.
C8_ResizeKeepsMinSize ==
    /\ (ov[Editor].visible /\ ~ov[Editor].selecting /\ content_rect(St, Editor) # None) =>
           /\ RWidth(content_rect(St, Editor)) >= MIN_SIZE
           /\ RHeight(content_rect(St, Editor)) >= MIN_SIZE
    /\ ResizeMoved =>
           /\ ~crashed
           /\ ov[Editor].end_pos[1] - ov[Editor].start_pos[1] >= MIN_SIZE
           /\ ov[Editor].end_pos[2] - ov[Editor].start_pos[2] >= MIN_SIZE

C8_Witness ==
    /\ ResizeMoved
    /\ pre.ov[Editor].resize_edge = "top-left"
    /\ event.pos = <<CanvasW + 9, CanvasH + 10>>
    /\ ov[Editor].end_pos[1] - ov[Editor].start_pos[1] = MIN_SIZE
    /\ ov[Editor].end_pos[2] - ov[Editor].start_pos[2] = MIN_SIZE

\* the last event moved the editor's region: a drag step or an arrow key
RegionMoved ==
    \/ event.name = "move" /\ event.w = Editor /\ pre.ov[Editor].dragging
    \/ /\ event.name = "key" /\ event.w = Editor /\ event.key \in Arrows
       /\ content_rect(pre, Editor) # None

\* C9: a drag or an arrow key keeps the region inside the canvas (left >= 0,
\* top >= 0, right <= width - 1, bottom <= height - 1) and keeps its size.
C9_MoveStaysInside ==
    RegionMoved =>
        LET r == content_rect(St, Editor)
            q == content_rect(pre, Editor)
        IN  /\ ~crashed
            /\ Left(r) >= 0 /\ Top(r) >= 0
            /\ Right(r) <= CanvasW - 1 /\ Bottom(r) <= CanvasH - 1
            /\ RWidth(r) = RWidth(q) /\ RHeight(r) = RHeight(q)

\* the last event ended a selection on the editor
SelectionEnded == event.name = "release" /\ event.w = Editor /\ pre.ov[Editor].selecting

\* C10: a selection that ends no wider or no higher than MIN_SIZE is
\* discarded: both corners unset, no snapshot, no gallery entry, the action
\* bar not shown; any other selection has its corners normalized, a history
\* of exactly one snapshot and exactly one gallery entry appended.
C10_SelectionEnd ==
    SelectionEnded =>
        LET rect == Normalized(RectOf(pre.ov[Editor].start_pos, event.pos))
            gallery == app.screenshot_snapshots
        IN  /\ ~crashed
            /\ ~ov[Editor].selecting
            /\ IF RWidth(rect) <= MIN_SIZE \/ RHeight(rect) <= MIN_SIZE
               THEN /\ ov[Editor].start_pos = None /\ ov[Editor].end_pos = None
                    /\ History(St, Editor) = <<>>
                    /\ gallery = pre.app.screenshot_snapshots
                    /\ bar = pre.bar
                    /\ ~(bar.visible /\ bar.linked_widget = Editor)
               ELSE /\ ov[Editor].start_pos = TopLeft(rect)
                    /\ ov[Editor].end_pos = BottomRight(rect)
                    /\ Len(History(St, Editor)) = 1
                    /\ Index(St, Editor) = 0
                    /\ History(St, Editor)[1].selection_rect = rect
                    /\ Len(gallery) = Len(pre.app.screenshot_snapshots) + 1
                    /\ SubSeq(gallery, 1, Len(gallery) - 1) = pre.app.screenshot_snapshots
                    /\ gallery[Len(gallery)].start_pos = TopLeft(rect)
                    /\ gallery[Len(gallery)].end_pos = BottomRight(rect)

C10_Witness ==
    /\ SelectionEnded
    /\ pre.ov[Editor].start_pos = <<10, 9>>
    /\ event.pos = <<11, 10>>
    /\ ov[Editor].start_pos = None
    /\ Len(app.screenshot_snapshots) = 1

\* C11: a selection of 3x3 pixels is discarded on release: the region is
\* unset, no snapshot is created and the action bar does not appear.
C11_SmallDiscarded ==
    (/\ SelectionEnded
     /\ RWidth(Normalized(RectOf(pre.ov[Editor].start_pos, event.pos))) = 3
     /\ RHeight(Normalized(RectOf(pre.ov[Editor].start_pos, event.pos))) = 3) =>
        /\ ov[Editor].start_pos = None /\ ov[Editor].end_pos = None
        /\ History(St, Editor) = <<>>
        /\ ~(bar.visible /\ bar.linked_widget = Editor)

\* the capture gallery
Gallery(s) == s.app.screenshot_snapshots

\* the 0-based gallery position of the entry the editor stands on: the entry
\* it navigated to, else the entry that was appended for the capture on its
\* canvas; Len(Gallery(s)) when there is none
EntryShown(s) ==
    LET g == Gallery(s)
        i == s.ov[Editor].current_snapshot_index
        mine == {k \in 1..Len(g) :
                    /\ s.ov[Editor].base_pixmap # NonePix
                    /\ g[k].screenshot.src = s.ov[Editor].base_pixmap.src}
    IN  IF i >= 0 /\ i < Len(g) THEN i
        ELSE IF mine # {} THEN (CHOOSE k \in mine : \A j \in mine : j <= k) - 1
        ELSE Len(g)

\* the last event was the navigation key of the direction
Navigated(direction) ==
    /\ event.name = "key" /\ event.w = Editor /\ ~event.ctrl
    /\ event.key = (IF direction < 0 THEN "Comma" ELSE "Period")
    /\ Gallery(pre) # <<>>

\* what a navigation of the direction has to have done
NavigationDone(direction) ==
    LET g == Gallery(pre)
        target == EntryShown(pre) + direction
    IN  IF target < 0 \/ target >= Len(g)
        THEN /\ Canvas(St, Editor) = Canvas(pre, Editor)
             /\ ov[Editor].start_pos = pre.ov[Editor].start_pos
             /\ ov[Editor].end_pos = pre.ov[Editor].end_pos
             /\ History(St, Editor) = History(pre, Editor)
             /\ Index(St, Editor) = Index(pre, Editor)
             /\ EntryShown(St) = EntryShown(pre)
        ELSE /\ Canvas(St, Editor) = g[target + 1].screenshot
             /\ ov[Editor].start_pos = g[target + 1].start_pos
             /\ ov[Editor].end_pos = g[target + 1].end_pos
             /\ EntryShown(St) = target
             /\ Len(History(St, Editor)) = 1
             /\ Index(St, Editor) = 0

\* C12: "previous" from the first entry and "next" from the last entry leave
\* canvas, region, annotation history and gallery position unchanged; every
\* other navigation replaces the editor's canvas and region with those of the
\* target entry, moves the gallery position to it and resets the annotation
\* history to one snapshot at index 0.
C12_Navigation ==
    \A direction \in {-1, 1} : Navigated(direction) => NavigationDone(direction)

\* C13: a gallery entry never changes once appended: whatever the last event
\* did to the editor's selection, the pixels and the region corners of every
\* entry the gallery held are as they were (below MAX_HISTORY no entry leaves
\* the gallery either).
C13_EntriesFixed ==
    Len(Gallery(pre)) < MAX_HISTORY =>
        /\ Len(Gallery(St)) >= Len(Gallery(pre))
        /\ \A k \in 1..Len(Gallery(pre)) : Gallery(St)[k] = Gallery(pre)[k]

\* the last event ended a selection that was kept
SelectionKept == SelectionEnded /\ ov[Editor].start_pos # None

\* C14: the gallery never holds more than MAX_HISTORY entries; a finalized
\* selection appends exactly one entry, the capture and the corners of the
\* selection, behind the entries held before, of which exactly the oldest is
\* removed if the gallery was full.
C14_GalleryBound ==
    /\ Len(Gallery(St)) <= MAX_HISTORY
    /\ SelectionKept =>
           LET old == Gallery(pre)
               kept == IF Len(old) = MAX_HISTORY THEN Tail(old) ELSE old
           IN  Gallery(St) = Append(kept, [screenshot |-> Canvas(pre, Editor),
                                           start_pos |-> ov[Editor].start_pos,
                                           end_pos |-> ov[Editor].end_pos])

\* a selection is finalized while the gallery is full
C14_Witness ==
    /\ SelectionKept
    /\ Len(Gallery(pre)) = MAX_HISTORY
    /\ Len(Gallery(St)) = MAX_HISTORY
    /\ Gallery(St)[1] = Gallery(pre)[2]
    /\ Gallery(St)[MAX_HISTORY].screenshot.src = app.grabs

\* the draw tools that are active
ActiveTools(s) == {m \in ModeSet : s.bar.checked[m]}

\* the tool whose button the last event clicked, by the mouse or by its key
\* while the action bar is shown ("" if it clicked none)
ToolClicked ==
    IF event.name = "button" /\ event.key \in ModeSet THEN event.key
    ELSE IF event.name = "key" /\ ~event.ctrl /\ pre.bar.visible
            /\ event.key \in {"1", "2", "3", "4"}
    THEN Modes[CHOOSE i \in 1..4 : event.key = <<"1", "2", "3", "4">>[i]]
    ELSE ""

\* C15: at most one draw tool is active in every reachable state; a click on
\* the button of a tool that was not active leaves exactly that tool active,
\* and a click on the button of the active tool leaves no tool active.
C15_OneTool ==
    /\ Cardinality(ActiveTools(St)) <= 1
    /\ ToolClicked # "" =>
           ActiveTools(St) = IF ToolClicked \in ActiveTools(pre) THEN {}
                             ELSE {ToolClicked}

\* the rectangle tool is clicked while the pen is active
C15_Witness ==
    /\ ToolClicked = "rectangle"
    /\ ActiveTools(pre) = {"pen"}
    /\ ActiveTools(St) = {"rectangle"}

\* the last event completed a pen stroke, a rectangle or a line on event.w
ShapeCompleted ==
    /\ event.name = "release" /\ pre.bar.drawing
    /\ _get_active_draw_mode(pre) \in {"pen", "rectangle", "line"}

\* the last event confirmed (Return) a text entry holding text
TextConfirmed ==
    event.name = "submit" /\ pre.bar.text_input # None /\ pre.bar.text_input # <<"">>

\* the history of w got exactly one snapshot more and shows it
OneSnapshotMore(w) ==
    /\ Len(History(St, w)) = Len(History(pre, w)) + 1
    /\ SubSeq(History(St, w), 1, Len(History(pre, w))) = History(pre, w)
    /\ Index(St, w) = Len(History(St, w)) - 1

\* C16: each completed pen stroke, each finalized rectangle or line and each
\* confirmed non-empty text entry adds exactly one snapshot to the history
\* of the overlay being annotated; a pen move between press and release
\* adds none.
C16_OneSnapshot ==
    /\ ShapeCompleted => OneSnapshotMore(event.w)
    /\ TextConfirmed => OneSnapshotMore(pre.bar.text_input_parent)
    /\ (event.name = "move" /\ pre.bar.drawing) =>
           \A w \in Widgets : History(St, w) = History(pre, w)

\* the last event was a pointer move that made the pen write a segment
PenWrote ==
    /\ event.name = "move" /\ pre.bar.drawing /\ ~crashed
    /\ _get_active_draw_mode(pre) = "pen"
    /\ ~pre.bar.last_point_clamped

\* C17: every segment the pen writes has both endpoints inside the region
\* of the annotated overlay inset by half the pen width, and the segment
\* changes no pixel outside the region.
C17_PenInside ==
    PenWrote =>
        LET lw == pre.bar.linked_widget
            rect == content_rect(pre, lw)
            half == pre.bar.pen_width \div 2
            draw_rect == Adjusted(rect, half, half, -half, -half)
            new_ink == Canvas(St, lw).ink \ Canvas(pre, lw).ink
        IN  /\ Contains(draw_rect, pre.bar.last_point)
            /\ Contains(draw_rect, bar.last_point)
            /\ \A m \in new_ink :
                   Contains(rect, IF IsPinned(lw)
                                  THEN <<m[1] + GLOW_SIZE, m[2] + GLOW_SIZE>>
                                  ELSE <<m[1], m[2]>>)

\* the last event was a click that reached the text tool while an entry
\* holding text was pending
TextClickedOnPending ==
    /\ event.name = "press" /\ ~pre.crashed
    /\ ~(~IsPinned(event.w) /\ content_rect(pre, event.w) = None)
    /\ _get_resize_edge(pre, event.w, event.pos) = ""
    /\ HandlesMousePress(pre) /\ _get_active_draw_mode(pre) = "text"
    /\ pre.bar.text_input # None /\ pre.bar.text_input # <<"">>

\* the pixel the text of the entry pending in s is drawn at, on its overlay
TextAnchor(s) ==
    LET p == s.bar.text_input_pos IN
    IF IsPinned(s.bar.text_input_parent)
    THEN <<p[1] - GLOW_SIZE + 2, p[2] - GLOW_SIZE + 1>>
    ELSE <<p[1] + 2, p[2] + 1>>

\* the text pending before the last event is on the canvas of its overlay,
\* which got one snapshot for it
PendingCommitted ==
    LET w == pre.bar.text_input_parent
        a == TextAnchor(pre)
    IN  /\ ~crashed
        /\ <<a[1], a[2], pre.bar.current_pen_color>> \in Canvas(St, w).ink
        /\ OneSnapshotMore(w)
        /\ History(St, w)[Len(History(St, w))] = SnapshotOf(St, w)

\* C18: a click with the text tool while an entry holding text is pending
\* commits the pending text to the canvas with one snapshot and then opens
\* the new entry, empty, at the click; no text is lost.
C18_ClickCommits ==
    TextClickedOnPending =>
        /\ PendingCommitted
        /\ bar.text_input = <<"">>
        /\ bar.text_input_pos = event.pos

\* C19: a click on a tool button (another tool, or the text tool itself)
\* while a text entry is pending finalizes the entry first: after the click
\* no entry is pending, and the text of the entry, if it held any, is on the
\* canvas with one snapshot.
C19_SwitchFinalizes ==
    (ToolClicked # "" /\ ~pre.crashed /\ pre.bar.text_input # None) =>
        /\ bar.text_input = None
        /\ pre.bar.text_input # <<"">> => PendingCommitted

\* the last event confirmed (Return) an empty text entry, or cancelled a
\* pending entry with Escape
EmptyConfirmedOrCancelled ==
    \/ event.name = "submit" /\ pre.bar.text_input = <<"">>
    \/ event.name = "esc" /\ pre.bar.text_input # None

\* C20: confirming an empty text entry, or cancelling a pending entry with
\* Escape, writes nothing to a canvas and adds no snapshot to a history;
\* afterwards no text entry is pending.
C20_NothingCommitted ==
    (EmptyConfirmedOrCancelled /\ ~pre.crashed) =>
        /\ ~crashed
        /\ \A w \in Widgets :
               /\ Canvas(St, w) = Canvas(pre, w)
               /\ History(St, w) = History(pre, w)
               /\ Index(St, w) = Index(pre, w)
        /\ bar.text_input = None

---------------------------------------------------------------------------
(* C21: a failed or cancelled export                                       *)

\* the last event asked the action bar for a save ("S") or a copy ("C")
ExportRequest ==
    IF event.name = "key" /\ event.ctrl /\ event.key \in {"S", "C"} /\ pre.bar.visible
    THEN event.key
    ELSE IF event.name = "button" /\ event.key = "save" THEN "S"
    ELSE IF event.name = "button" /\ event.key = "copy" THEN "C"
    ELSE ""

\* what the overlay the action bar exports from had to export
Cropped(s) ==
    IF s.bar.linked_widget = NoWidget \/ ExportRaises(s, s.bar.linked_widget)
    THEN NonePix
    ELSE _get_content_for_export(s, s.bar.linked_widget)[1]

\* the request had a content to export and the sink did not take it: the
\* dialog was dismissed or the file not written, or the clipboard was not there
ExportFailed ==
    /\ ExportRequest # "" /\ ~pre.crashed /\ Cropped(pre) # NonePix
    /\ ExportRequest = "S" => app.saved = pre.app.saved
    /\ ExportRequest = "C" => app.clipboard # Cropped(pre)

\* C21: a failed or cancelled export leaves the state as it was before the
\* request: the overlay it was asked of stays open with the same canvas,
\* region and history, and so does every other overlay, the gallery and sinks
C21_FailedExportKeepsState ==
    ExportFailed => ~crashed /\ ov = pre.ov /\ app = pre.app

---------------------------------------------------------------------------
(* C22: pin, copy and save with no region to export                        *)

\* the last event asked the open editor for a pin, a copy or a save (by a
\* key pressed on the editor, or by a button of the action bar shown for it)
\* while its region was unset or not above the minimum size
RequestWithoutRegion ==
    /\ ~pre.crashed /\ pre.ov[Editor].visible /\ ~ExportValid(pre, Editor)
    /\ \/ event.name = "key" /\ event.w = Editor /\ event.ctrl
          /\ event.key \in {"S", "C", "T"}
       \/ event.name = "button" /\ event.key \in {"save", "copy", "pin"}
          /\ pre.bar.linked_widget = Editor

\* C22: a pin, copy or save request made while the editor's region is unset
\* or below the minimum size changes no state: no overlay is closed or
\* created, nothing is written to the clipboard or a file, every overlay's
\* canvas, region and history are unchanged
C22_RequestWithoutRegion ==
    RequestWithoutRegion => ~crashed /\ ov = pre.ov /\ app = pre.app

---------------------------------------------------------------------------
(* C23: a capture request while the editor is open                         *)

\* the last event was a capture request that found the editor open
CaptureWhileOpen == event.name = "capture" /\ ~pre.crashed /\ pre.ov[Editor].visible

\* C23: a capture request issued while the editor is already open changes
\* nothing: the editor (canvas, region, selection state, history, gallery
\* position), the gallery with the rest of the controller, and the action
\* bar with its tools are as before the request
C23_CaptureWhileOpen ==
    CaptureWhileOpen =>
        /\ ~crashed
        /\ ov = pre.ov
        /\ app = pre.app
        /\ bar = pre.bar

\* a request that found the editor on a gallery entry it had navigated to,
\* with a region, a history and the pen active
C23_Witness ==
    /\ CaptureWhileOpen
    /\ content_rect(pre, Editor) # None
    /\ pre.ov[Editor].current_snapshot_index >= 0
    /\ Len(History(pre, Editor)) >= 1
    /\ pre.bar.checked["pen"]
    /\ Len(pre.app.screenshot_snapshots) >= 2

---------------------------------------------------------------------------
(* C24: a pinned overlay leaving the screen                                *)

\* the last event took the pinned overlay w off the screen
PinnedClosed(w) == IsPinned(w) /\ ~pre.crashed /\ pre.ov[w].visible /\ ~ov[w].visible

\* the editor is open on what the overlay w held: its raster and its history
\* with the index preserved
Reopened(w) ==
    /\ ov[Editor].visible
    /\ ov[Editor].base_pixmap = pre.ov[w].base_pixmap
    /\ History(St, Editor) = History(pre, w)
    /\ Index(St, Editor) = Index(pre, w)

---------------------------------------------------------------------------
(* C25: the composite of the screens                                       *)

\* the last event was a capture request that combined the screens
Combined == event.name = "capture" /\ app.grabs # pre.app.grabs

\* the composite spans the bounding box of the screens: every screen lies in
\* it at (screen origin - virtual minimum), and a screen touches each side
SpansBoundingBox(c, screens, vw, vh) ==
    /\ \A sc \in screens : \E d \in c.drawn :
           /\ d.screen = sc
           /\ d.x >= 0 /\ d.y >= 0 /\ d.x + sc.width <= vw /\ d.y + sc.height <= vh
           /\ \A other \in screens : \E e \in c.drawn :
                  /\ e.screen = other
                  /\ e.x - d.x = other.left - sc.left
                  /\ e.y - d.y = other.top - sc.top
    /\ \E d \in c.drawn : d.x = 0
    /\ \E d \in c.drawn : d.y = 0
    /\ \E d \in c.drawn : d.x + d.screen.width = vw
    /\ \E d \in c.drawn : d.y + d.screen.height = vh

\* the ratio of the composite is the largest of the screens, and every
\* screen at another ratio was resampled to it
AtLargestRatio(c, screens) ==
    /\ \E sc \in screens : sc.dpr4 = c.dpr4
    /\ \A sc \in screens : sc.dpr4 <= c.dpr4
    /\ \A d \in c.drawn :
           /\ d.dpr4 = c.dpr4
           /\ d.screen.dpr4 # c.dpr4 => d.scaled
           /\ 4 * d.w <= d.screen.width * c.dpr4 /\ d.screen.width * c.dpr4 < 4 * (d.w + 1)
           /\ 4 * d.h <= d.screen.height * c.dpr4 /\ d.screen.height * c.dpr4 < 4 * (d.h + 1)

\* the logical size of the virtual desktop of a set of screens
VirtualWidth(screens) ==
    SetMax({sc.left + sc.width : sc \in screens}) - SetMin({sc.left : sc \in screens})
VirtualHeight(screens) ==
    SetMax({sc.top + sc.height : sc \in screens}) - SetMin({sc.top : sc \in screens})

---------------------------------------------------------------------------
(* C26: the least size of a pinned overlay                                 *)

\* the last event moved the pointer during a resize of the pinned overlay w
PinnedResizeMoved(w) ==
    /\ IsPinned(w) /\ event.name = "move" /\ event.w = w
    /\ ~pre.crashed /\ pre.ov[w].resizing

\* C26: resizing a pinned overlay from any edge or corner, with or without
\* the aspect-ratio modifier held, never produces a width or a height below
\* MIN_SIZE (in particular never 0), wherever the pointer is and whatever
\* the aspect ratio the overlay was pinned with
C26_PinnedKeepsMinSize ==
    \A w \in Widgets :
        PinnedResizeMoved(w) =>
            /\ ~crashed
            /\ ov[w].base_pixmap # NonePix
            /\ ov[w].base_pixmap.w >= MIN_SIZE
            /\ ov[w].base_pixmap.h >= MIN_SIZE


---------------------------------------------------------------------------
(* C27: the aspect-ratio lock of a resize                                  *)

\* the last event moved the pointer during a resize of w with the modifier
\* key held
LockedResizeMoved(w) ==
    /\ event.name = "move" /\ event.w = w /\ event.shift
    /\ ~pre.crashed /\ pre.ov[w].resizing

\* the width and height the region of w was frozen with: the selection the
\* resize started from in the editor, the raster a pinned overlay was made of
FrozenSize(w) ==
    IF IsPinned(w) THEN pre.ov[w].aspect_ratio
    ELSE <<RWidth(content_rect(pre, w)), RHeight(content_rect(pre, w))>>

\* a width and a height of which one is the other scaled by the ratio
\* frozen[1] : frozen[2], up to the rounding to a whole number
KeepsRatio(width, height, frozen) ==
    \/ Abs(height * frozen[1] - width * frozen[2]) < frozen[1]
    \/ Abs(width * frozen[2] - height * frozen[1]) < frozen[2]

\* C27: after a pointer move of a resize made with the modifier key held,
\* the region of the resized overlay, the editor's selection or a pinned
\* overlay, has the aspect ratio it was frozen with, up to integer rounding
C27_LockedResizeKeepsRatio ==
    \A w \in Widgets :
        LockedResizeMoved(w) =>
            /\ ~crashed
            /\ KeepsRatio(RWidth(content_rect(St, w)), RHeight(content_rect(St, w)),
                          FrozenSize(w))


---------------------------------------------------------------------------
(* C28: what starts a drag                                                 *)

\* the last event was a press on overlay w while it showed a frozen region
PressedOnFrozen(w) ==
    /\ event.name = "press" /\ event.w = w
    /\ ~pre.crashed /\ pre.ov[w].visible
    /\ ~ContentRectRaises(pre, w) /\ content_rect(pre, w) # None

\* the press that started the drag under way on the editor fell outside its
\* region: drag_offset is that press relative to the region's corner
DragStartedOutside ==
    LET r == content_rect(pre, Editor)
        p == PtAdd(TopLeft(r), pre.ov[Editor].drag_offset)
    IN  pre.ov[Editor].dragging /\ r # None /\ ~Contains(r, p)

\* C28: a press on an overlay with a frozen region starts a drag only when
\* it is inside the region, on no resize handle, and no draw tool is active;
\* a drag is not started by a press outside the region, and a pointer move
\* after such a press leaves the editor's region where it is
C28_DragStartsInsideOnly ==
    /\ \A w \in Widgets :
           (PressedOnFrozen(w) /\ ov[w].dragging) =>
               /\ Contains(content_rect(pre, w), event.pos)
               /\ _get_resize_edge(pre, w, event.pos) = ""
               /\ ~is_any_draw_tool_active(pre)
    /\ (event.name = "move" /\ event.w = Editor /\ ~pre.crashed /\ DragStartedOutside) =>
           content_rect(St, Editor) = content_rect(pre, Editor)


---------------------------------------------------------------------------
(* C29: the hit test of the resize handles                                 *)

CornerTags == {"top-left", "top-right", "bottom-left", "bottom-right"}
NamesLeft(tag) == tag \in {"left", "top-left", "bottom-left"}
NamesRight(tag) == tag \in {"right", "top-right", "bottom-right"}
NamesTop(tag) == tag \in {"top", "top-left", "top-right"}
NamesBottom(tag) == tag \in {"bottom", "bottom-left", "bottom-right"}

\* p is within the handle size of a vertical edge (the left or the right
\* one) of r, of a horizontal edge, and inside r grown by the handle size
NearVertical(r, p) ==
    \/ Abs(p[1] - Left(r)) <= RESIZE_HANDLE_SIZE
    \/ Abs(p[1] - Right(r)) <= RESIZE_HANDLE_SIZE
NearHorizontal(r, p) ==
    \/ Abs(p[2] - Top(r)) <= RESIZE_HANDLE_SIZE
    \/ Abs(p[2] - Bottom(r)) <= RESIZE_HANDLE_SIZE
InGrown(r, p) ==
    /\ Left(r) - RESIZE_HANDLE_SIZE <= p[1] /\ p[1] <= Right(r) + RESIZE_HANDLE_SIZE
    /\ Top(r) - RESIZE_HANDLE_SIZE <= p[2] /\ p[2] <= Bottom(r) + RESIZE_HANDLE_SIZE

\* the tag the press just made left on w: "" when it started no resize
PressTag(w) == IF ov[w].resizing THEN ov[w].resize_edge ELSE ""

\* the last event moved the pointer, without the aspect-ratio modifier,
\* during a resize of w
PlainResizeMoved(w) ==
    /\ event.name = "move" /\ event.w = w /\ ~event.shift
    /\ ~pre.crashed /\ pre.ov[w].resizing

\* C29: a press on an overlay with a frozen region starts a resize with a
\* corner tag when the pointer is within 8 px of a vertical and of a
\* horizontal edge, with an edge tag of that orientation when it is within
\* 8 px of edges of one orientation only, and starts no resize when it is
\* farther than 8 px from every edge or outside the region grown by 8 px;
\* the tag names only edges the pointer is near; and a pointer move of the
\* resize (without the aspect-ratio modifier) moves no edge (of a pinned
\* overlay: changes no dimension) that the tag does not name
C29_HitTest ==
    \A w \in Widgets :
        /\ (PressedOnFrozen(w) /\ ~crashed) =>
               LET r == content_rect(pre, w)
                   p == event.pos
                   tag == PressTag(w)
               IN  /\ (InGrown(r, p) /\ NearVertical(r, p) /\ NearHorizontal(r, p))
                          => tag \in CornerTags
                   /\ (InGrown(r, p) /\ NearVertical(r, p) /\ ~NearHorizontal(r, p))
                          => tag \in {"left", "right"}
                   /\ (InGrown(r, p) /\ ~NearVertical(r, p) /\ NearHorizontal(r, p))
                          => tag \in {"top", "bottom"}
                   /\ (~InGrown(r, p) \/ (~NearVertical(r, p) /\ ~NearHorizontal(r, p)))
                          => tag = ""
                   /\ NamesLeft(tag) => Abs(p[1] - Left(r)) <= RESIZE_HANDLE_SIZE
                   /\ NamesRight(tag) => Abs(p[1] - Right(r)) <= RESIZE_HANDLE_SIZE
                   /\ NamesTop(tag) => Abs(p[2] - Top(r)) <= RESIZE_HANDLE_SIZE
                   /\ NamesBottom(tag) => Abs(p[2] - Bottom(r)) <= RESIZE_HANDLE_SIZE
                   /\ tag = "" => ~ov[w].resizing
        /\ (PlainResizeMoved(w) /\ ~crashed) =>
               LET r0 == content_rect(pre, w)
                   r1 == content_rect(St, w)
                   tag == pre.ov[w].resize_edge
               IN  IF IsPinned(w)
                   THEN /\ RWidth(r1) # RWidth(r0) => NamesLeft(tag) \/ NamesRight(tag)
                        /\ RHeight(r1) # RHeight(r0) => NamesTop(tag) \/ NamesBottom(tag)
                   ELSE /\ Left(r1) # Left(r0) => NamesLeft(tag)
                        /\ Right(r1) # Right(r0) => NamesRight(tag)
                        /\ Top(r1) # Top(r0) => NamesTop(tag)
                        /\ Bottom(r1) # Bottom(r0) => NamesBottom(tag)

\* a press within 8 px of the right and the bottom edge only of the editor's
\* region has started a resize tagged bottom-right, and the pointer move
\* after it has moved those two edges and no other
C29_Witness ==
    /\ PlainResizeMoved(Editor) /\ ~crashed
    /\ pre.ov[Editor].resize_edge = "bottom-right"
    /\ Right(content_rect(St, Editor)) # Right(content_rect(pre, Editor))
    /\ Bottom(content_rect(St, Editor)) # Bottom(content_rect(pre, Editor))
    /\ TopLeft(content_rect(St, Editor)) = TopLeft(content_rect(pre, Editor))


---------------------------------------------------------------------------
(* C30: a pen stroke that comes back into the region                       *)

\* the rectangle the pen may draw in: the region of the linked overlay less
\* half the pen width on every side
PenDrawRect(s) ==
    LET h == s.bar.pen_width \div 2 IN
    Adjusted(content_rect(s, s.bar.linked_widget), h, h, -h, -h)

\* the last event moved the pointer, with the button held, to a point
\* inside the drawing rectangle during a pen stroke whose last point had
\* been clamped at the boundary
PenReEntered ==
    /\ event.name = "move" /\ ~pre.crashed
    /\ pre.bar.linked_widget # NoWidget /\ pre.bar.drawing
    /\ _get_active_draw_mode(pre) = "pen"
    /\ pre.bar.last_point_clamped
    /\ Contains(PenDrawRect(pre), event.pos)

\* C30: a pointer move back inside the region, later in a pen stroke one of
\* whose points was clamped at the boundary, draws again: the stroke is
\* continued to the pointer, which becomes its last point, not clamped
C30_PenDrawsAfterReEntry ==
    PenReEntered =>
        /\ ~crashed
        /\ bar.last_point = event.pos
        /\ ~bar.last_point_clamped
        /\ LET lw == bar.linked_widget
               pt == _window_to_pixmap_pos(St, event.pos)
           IN  <<pt[1], pt[2], bar.current_pen_color>> \in ov[lw].base_pixmap.ink


---------------------------------------------------------------------------
(* C31: the preview and the commit of a rectangle or a line                *)

\* a rectangle or a line was being dragged on the linked overlay before the
\* last event
ShapeInHand ==
    /\ ~pre.crashed /\ pre.bar.drawing /\ pre.bar.linked_widget # NoWidget
    /\ _get_active_draw_mode(pre) \in {"rectangle", "line"}

\* the canvas and the history of every overlay are as before the last event
CanvasAndHistoryKept ==
    \A w \in Widgets :
        /\ ov[w].base_pixmap = pre.ov[w].base_pixmap
        /\ History(St, w) = History(pre, w)
        /\ Index(St, w) = Index(pre, w)

\* the region of overlay w in the coordinates of its canvas
CanvasRegion(s, w) ==
    IF IsPinned(w) THEN <<0, 0, s.ov[w].base_pixmap.w - 1, s.ov[w].base_pixmap.h - 1>>
    ELSE content_rect(s, w)

\* the pixels the last event painted on the canvas of w
Painted(w) == ov[w].base_pixmap.ink \ pre.ov[w].base_pixmap.ink

\* point p of the window of w moved into its region, a pixel and half the
\* pen width off each edge, in the coordinates of the canvas
IntoRegion(s, w, p) ==
    LET r == content_rect(s, w)
        d == 1 + s.bar.pen_width \div 2
        q == <<Max(Left(r) + d, Min(p[1], Right(r) - d)),
               Max(Top(r) + d, Min(p[2], Bottom(r) - d))>>
    IN  IF IsPinned(w) THEN <<q[1] - GLOW_SIZE, q[2] - GLOW_SIZE>> ELSE q

\* the canvas of w before the last event with the shape from a to b on it:
\* the rectangle QRect(a, b).normalized(), or the line from a to b
WithShape(w, a, b) ==
    IF _get_active_draw_mode(pre) = "rectangle"
    THEN DrawRect(pre.ov[w].base_pixmap, Normalized(RectOf(a, b)), pre.bar.current_pen_color)
    ELSE DrawLine(pre.ov[w].base_pixmap, a, b, pre.bar.current_pen_color)

\* C31: a pointer move while a rectangle or a line is dragged changes the
\* preview geometry only, not a canvas and not a history; the release
\* writes the shape into the canvas of the overlay once (one snapshot is
\* committed), every painted point inside the region, and clears the preview
C31_ShapePreviewThenCommit ==
    /\ (ShapeInHand /\ event.name = "move") =>
           /\ ~crashed
           /\ CanvasAndHistoryKept
           /\ bar.drawing
    /\ (ShapeInHand /\ event.name = "release") =>
           LET lw == pre.bar.linked_widget IN
           /\ ~crashed
           /\ ~bar.drawing
           /\ bar.preview_rect = None /\ bar.preview_line = None
           /\ ov[lw].base_pixmap =
                  WithShape(lw, IntoRegion(pre, lw, pre.bar.draw_start_point),
                            IntoRegion(pre, lw, event.pos))
           /\ \A m \in Painted(lw) : Contains(CanvasRegion(pre, lw), <<m[1], m[2]>>)
           /\ Index(St, lw) = Index(pre, lw) + 1
           /\ History(St, lw)[Index(St, lw) + 1].screenshot.ink
                  = _get_content_for_export(St, lw)[1].ink
           /\ \A w \in Widgets \ {lw} :
                  ov[w].base_pixmap = pre.ov[w].base_pixmap /\ History(St, w) = History(pre, w)

\* a rectangle started beyond the handles of the editor's region and
\* dragged outside it has been released: it is on the canvas, inside the
\* region
C31_Witness ==
    /\ ShapeInHand /\ event.name = "release" /\ ~crashed
    /\ _get_active_draw_mode(pre) = "rectangle"
    /\ pre.bar.linked_widget = Editor
    /\ ~Contains(content_rect(pre, Editor), pre.bar.draw_start_point)
    /\ ~Contains(content_rect(pre, Editor), event.pos)
    /\ pre.bar.preview_rect # None
    /\ Painted(Editor) # {}


---------------------------------------------------------------------------
(* C32: what Escape cancels                                                *)

\* the last event was Escape on the open overlay w
EscapedOn(w) ==
    /\ event.name = "esc" /\ event.w = w
    /\ ~pre.crashed /\ pre.ov[w].visible

\* every overlay that was open before the last event still is
AllStayOpen == \A v \in Widgets : pre.ov[v].visible => ov[v].visible

\* C32: Escape on an overlay, with a text entry pending, only cancels the
\* entry: the tools stay as they are and every overlay stays open; with no
\* entry pending and a draw tool active it only deactivates the tool: every
\* overlay stays open; canvases and histories are unchanged in both cases;
\* and it closes the overlay only when neither is the case
C32_EscapeCancelsFirst ==
    \A w \in Widgets :
        EscapedOn(w) =>
            /\ ~crashed
            /\ pre.bar.text_input # None =>
                   /\ bar.text_input = None
                   /\ bar.checked = pre.bar.checked
                   /\ AllStayOpen /\ CanvasAndHistoryKept
            /\ (pre.bar.text_input = None /\ is_any_draw_tool_active(pre)) =>
                   /\ ~is_any_draw_tool_active(St)
                   /\ AllStayOpen /\ CanvasAndHistoryKept
            /\ ~ov[w].visible =>
                   pre.bar.text_input = None /\ ~is_any_draw_tool_active(pre)
            /\ (pre.bar.text_input = None /\ ~is_any_draw_tool_active(pre)) => ~ov[w].visible

\* Escape has cancelled a text entry pending on a pinned overlay: the text
\* tool is still active and the overlay open
C32_Witness ==
    \E w \in Widgets \ {Editor} :
        /\ EscapedOn(w) /\ ~crashed
        /\ pre.bar.text_input # None /\ pre.bar.text_input_parent = w
        /\ bar.text_input = None /\ bar.checked["text"] /\ ov[w].visible


---------------------------------------------------------------------------
(* C33: what the scroll wheel adjusts                                      *)

\* the last event was a scroll over the open overlay w
Wheeled(w) ==
    /\ event.name = "wheel" /\ event.w = w
    /\ ~pre.crashed /\ pre.ov[w].visible

\* one step of the font size, and of the opacity in percent
FontStep(size, up) == IF up THEN Min(72, size + 2) ELSE Max(8, size - 2)
OpacityStep(percent, up) == IF up THEN Min(100, percent + 5) ELSE Max(10, percent - 5)

\* C33: a scroll over an overlay while a text entry is pending changes the
\* font size by one step within 8..72 and no opacity, also over a pinned
\* overlay; a scroll over a pinned overlay while no entry is pending changes
\* its opacity by one step within 0.1..1.0 and not the font size
C33_WheelByTextEntry ==
    \A w \in Widgets :
        Wheeled(w) =>
            /\ ~crashed
            /\ pre.bar.text_input # None =>
                   /\ bar.font_size = FontStep(pre.bar.font_size, event.key = "up")
                   /\ \A v \in Widgets : ov[v].opacity = pre.ov[v].opacity
            /\ (pre.bar.text_input = None /\ IsPinned(w)) =>
                   /\ ov[w].opacity = OpacityStep(pre.ov[w].opacity, event.key = "up")
                   /\ bar.font_size = pre.bar.font_size


---------------------------------------------------------------------------
(* C34: the arrow keys                                                     *)

\* the last event was an arrow key on the editor while it had a region
ArrowPressed ==
    /\ event.name = "key" /\ event.w = Editor /\ event.key \in Arrows
    /\ ~pre.crashed /\ pre.ov[Editor].visible /\ content_rect(pre, Editor) # None

\* rectangle r moved by d, as far as the canvas lets it
TranslatedInCanvas(r, d) ==
    LET x == Max(0, Min(Left(r) + d[1], CanvasW - RWidth(r)))
        y == Max(0, Min(Top(r) + d[2], CanvasH - RHeight(r)))
    IN  <<x, y, x + RWidth(r) - 1, y + RHeight(r) - 1>>

\* C34: an arrow key on the editor with a region moves the region by 1 px,
\* by 10 px with Shift, in the direction of the key, clamped to the canvas,
\* unless a drawing is in progress (a draw tool, the button held after a
\* press): then the region stays where it is
C34_ArrowMovesRegion ==
    ArrowPressed =>
        /\ ~crashed
        /\ content_rect(St, Editor) =
               IF pre.bar.drawing THEN content_rect(pre, Editor)
               ELSE TranslatedInCanvas(content_rect(pre, Editor),
                        ArrowDelta(event.key, IF event.shift THEN 10 ELSE 1))


---------------------------------------------------------------------------
(* C35: the overlay an event acts on                                       *)

\* the last event was a key or pointer event delivered to the open overlay w
DeliveredTo(w) ==
    /\ event.w = w /\ event.name \in {"key", "press", "move", "release"}
    /\ ~pre.crashed /\ pre.ov[w].visible

\* overlay v, open before the last event, is open still, with the canvas and
\* the history it had
LeftAlone(v) ==
    pre.ov[v].visible =>
        /\ ov[v].visible
        /\ ov[v].base_pixmap = pre.ov[v].base_pixmap
        /\ History(St, v) = History(pre, v)
        /\ Index(St, v) = Index(pre, v)

\* C35: a key or pointer event delivered to overlay w (an undo, a redo, an
\* export, a draw, a commit) changes and closes no other open overlay,
\* whichever overlay the action bar was last shown for
C35_EventsActOnTheirOverlay ==
    \A w \in Widgets :
        DeliveredTo(w) => \A v \in Widgets \ {w} : LeftAlone(v)


---------------------------------------------------------------------------
(* C36: closed overlays                                                    *)

\* overlay w is closed in state s: its window is not shown, its canvas is
\* released and its history cleared
IsClosed(s, w) ==
    /\ ~s.ov[w].visible
    /\ s.ov[w].base_pixmap = NonePix
    /\ s.ov[w].annotation_states = <<>>

\* the last event was a key or pointer event delivered to an open overlay
\* other than w
DeliveredBeside(w) == \E v \in Widgets \ {w} : DeliveredTo(v)

\* C36: a key or pointer event delivered to an open overlay while another
\* overlay is closed does not reach the closed one through the action bar:
\* it starts no drawing on it, paints nothing on it, and commits, undoes
\* and redoes nothing on it
C36_ClosedOverlaysUnreached ==
    \A w \in Widgets :
        (IsClosed(pre, w) /\ ~ov[w].visible /\ DeliveredBeside(w)) =>
            /\ IsClosed(St, w)
            /\ Index(St, w) = Index(pre, w)
            /\ ~(bar.drawing /\ bar.linked_widget = w)


---------------------------------------------------------------------------
(* C37: annotations under a resize of a pinned overlay                     *)

\* the colours of the ink on pixmap p
InkColours(p) == IF p = NonePix THEN {} ELSE {m[3] : m \in p.ink}

\* C37: a pointer move of a resize of a pinned overlay that leaves it at
\* least MIN_SIZE wide and high shows, at the new size, the content the
\* canvas had before the move: the ink that was on the canvas, drawn before
\* or after the pin and as left by undo and redo, and no other
C37_ResizeKeepsAnnotations ==
    \A w \in Widgets :
        (PinnedResizeMoved(w) /\ ~crashed /\ ov[w].base_pixmap # NonePix
            /\ ov[w].base_pixmap.w >= MIN_SIZE /\ ov[w].base_pixmap.h >= MIN_SIZE) =>
            InkColours(ov[w].base_pixmap) = InkColours(pre.ov[w].base_pixmap)


---------------------------------------------------------------------------
(* C38: the region after an undo or a redo in the editor                   *)

\* the last event moved the editor's history index by undo or redo
EditorRestored ==
    /\ (UndoTarget = Editor \/ RedoTarget = Editor)
    /\ Index(St, Editor) # Index(pre, Editor)

\* C38: after an undo or a redo in the editor the active region is the
\* region stored in the snapshot the history index now points at
C38_RestoreSetsRegion ==
    (EditorRestored /\ ~crashed) =>
        content_rect(St, Editor) = History(St, Editor)[Index(St, Editor) + 1].selection_rect


---------------------------------------------------------------------------
(* C39: the canvas a pinned overlay starts with                            *)

\* the last event pinned the editor's region as overlay w
JustPinned(w) == Pinned /\ IsPinned(w) /\ ov[w].created /\ ~pre.ov[w].created

\* C39: right after a pin the pinned overlay's canvas is the snapshot at its
\* history index, whatever the editor did before the pin
C39_PinnedShowsItsSnapshot ==
    \A w \in Widgets :
        (JustPinned(w) /\ ~crashed) =>
            /\ Index(St, w) >= 0 /\ Index(St, w) < Len(History(St, w))
            /\ Shows(St, w, Index(St, w))


---------------------------------------------------------------------------
(* C40: a click that changes nothing                                       *)

\* the last event released the pointer on w after a press with a drawing
\* tool or on a resize handle, with the canvas and the region of w as the
\* snapshot at the history index has them
ReleasedUnchanged(w) ==
    /\ event.name = "release" /\ event.w = w
    /\ \/ pre.bar.drawing /\ pre.bar.linked_widget = w
       \/ pre.ov[w].resizing
    /\ Index(pre, w) >= 0 /\ Index(pre, w) < Len(History(pre, w))
    /\ Shows(St, w, Index(pre, w))
    /\ (IsPinned(w) \/
           content_rect(St, w) = History(pre, w)[Index(pre, w) + 1].selection_rect)

\* C40: a press and release that changes neither a pixel of the canvas nor
\* the region leaves the history as it was: no snapshot is appended, the
\* snapshots after the index stay, and the index stays
C40_IdleClickKeepsHistory ==
    \A w \in Widgets :
        (ReleasedUnchanged(w) /\ ~crashed) =>
            History(St, w) = History(pre, w) /\ Index(St, w) = Index(pre, w)

=============================================================================
